---- MODULE Spec2Model ----
(***************************************************************************)
(* Orchestration pipeline of the chat workflow: one conversation turn is   *)
(* threaded through the nodes orchestrator_start, query_analysis,          *)
(* tool_execution, comprehensive_check, comprehensive_followup,            *)
(* response_enrichment and orchestrator_finish (src/workflow.py), which    *)
(* call the agents under src/agents/ and the MCP client under src/utils/.  *)
(*                                                                         *)
(* Python values are modelled as follows.                                  *)
(*  - A parameter value is a tagged record (NoneV, StrV, IntV).               *)
(*  - A parameter map is a function whose DOMAIN is the set of keys.       *)
(*  - A string that the code inspects with `in` is a sequence of tokens    *)
(*    (Tok); substring containment is contiguous-subsequence containment.  *)
(*  - An id of 0 stands for a missing or falsy id in a payload.            *)
(*  - A list object that two places refer to is tracked by the index of    *)
(*    the tool result that owns it (see ExtractFrom).                      *)
(***************************************************************************)
EXTENDS Integers, Sequences, FiniteSets, TLC

VARIABLES
    pc,                            \* node of the graph that runs next
    user_query,                    \* ChatState.user_query
    workflow_status,               \* ChatState.workflow_status
    error_count,                   \* ChatState.error_count
    query_type,                    \* ChatState.query_type
    llm_analysis,                  \* context_data.query_analysis.llm_analysis
    tool_plan,                     \* ChatState.tool_plan
    executed_tools,                \* ChatState.executed_tools
    mcp_results,                   \* ChatState.mcp_results
    needs_comprehensive_followup,  \* ChatState.needs_comprehensive_followup
    extracted_ids,                 \* ChatState.extracted_ids
    followup_tool_plan,            \* ChatState.followup_tool_plan
    final_response,                \* ChatState.final_response
    conversation_history,          \* ChatState.conversation_history
    validation_result,             \* result of _validate_initial_state
    exec_phase,                    \* which call of execute_tools is running
    exec_index,                    \* position of the for loop in the plan
    attempt,                       \* loop variable of the retry loop
    original_plan,                 \* local of _comprehensive_followup_node
    results_before,                \* mcp_results when execute_tools was entered
    attempt_log,                   \* calls of client.execute_tool, in order
    oracle_calls,                  \* calls of the llm_client operations
    passed_state,                  \* the dict a caller passes to a state helper
    returned_state,                \* the dict the state helper returned
    turn_pc,                       \* per concurrent turn: node that runs next
    _current_websocket,            \* EnhancedLangGraphWorkflow._current_websocket
    sent,                          \* events sent, in the order of the sends
    confidence_score,              \* ChatState.confidence_score, in percent
    annotations,                   \* ChatState.annotations
    memory,                        \* the MemorySaver: history per thread id
    thread_id                      \* thread id of the turn in progress

vars == <<pc, user_query, workflow_status, error_count, query_type,
          llm_analysis, tool_plan, executed_tools, mcp_results,
          needs_comprehensive_followup, extracted_ids, followup_tool_plan,
          final_response, conversation_history, validation_result,
          exec_phase, exec_index, attempt, original_plan, results_before,
          attempt_log, oracle_calls, passed_state, returned_state, turn_pc,
          _current_websocket, sent, confidence_score, annotations, memory,
          thread_id>>

\* the state helpers of src/state.py called on their own
helperVars == <<passed_state, returned_state>>

\* the turn of the pipeline
turnVars ==
    <<pc, user_query, workflow_status, error_count, query_type, llm_analysis,
      tool_plan, executed_tools, mcp_results, needs_comprehensive_followup,
      extracted_ids, followup_tool_plan, final_response, conversation_history,
      validation_result, exec_phase, exec_index, attempt, original_plan,
      results_before, attempt_log, oracle_calls>>

\* what concurrent turns on one workflow object share and emit
sessionVars == <<turn_pc, _current_websocket, sent>>

\* what the badges of the enrich stage are made from, and the badges
badgeVars == <<confidence_score, annotations>>

\* the checkpointer of the compiled graph and the thread it is asked for
checkpointVars == <<memory, thread_id>>

---------------------------------------------------------------------------
(* Bounds of the model *)

\* longest tool plan the oracle proposes
MaxPlanLen == 2

\* longest list of linked ids that the results of a turn carry: entries
\* of one resource_mapping, and ticket results
MaxLinked == 6

\* longest conversation history that a turn starts with
MaxHistory == 11

\* records that a caller of the state helpers collects in one state value
MaxHelperCalls == 2

\* plan entries per turn with a call of client.execute_tool that the Tool
\* Service does not serve at the first request with a success: the call
\* raises, or is answered after failed requests, or the answer is a
\* structured failure
MaxFaultyCalls == 1

\* the most characters of a narrative that reach the sink
MaxTokens == 2

\* longest list of items in the payload of a tool result
MaxItems == 4

(* Constants of the program *)

max_retries == 2

client_max_retries == 3

minimum_query_length == 3

maximum_query_length == 1000

history_limit == 10

linked_limit == 5

---------------------------------------------------------------------------
(* Python values *)

NoneV == [kind |-> "none", s |-> "", n |-> 0]

StrV(x) == [kind |-> "str", s |-> x, n |-> 0]

IntV(k) == [kind |-> "int", s |-> "", n |-> k]

\* a float with one decimal place, held in tenths: FloatV(75) is 7.5
FloatV(tenths) == [kind |-> "float", s |-> "", n |-> tenths]

\* dict.get(key): None when the key is missing
Get(parameters, key) ==
    IF key \in DOMAIN parameters THEN parameters[key] ELSE NoneV

NoParams == [k \in {} |-> NoneV]

\* pattern occurs in text as a contiguous run (Python: pattern in text)
Contains(text, pattern) ==
    \E i \in 0..(Len(text) - Len(pattern)) :
        \A j \in 1..Len(pattern) : text[i + j] = pattern[j]

IsPrefix(s, t) ==
    /\ Len(s) <= Len(t)
    /\ \A i \in 1..Len(s) : t[i] = s[i]

Last(s) == s[Len(s)]

\* list[:n]
Take(s, n) == SubSeq(s, 1, IF Len(s) < n THEN Len(s) ELSE n)

\* list[-n:]
\* variant with a fault: the oldest entries are the ones kept
TakeLastKeepOldest(s, n) ==
    IF Len(s) <= n THEN s ELSE SubSeq(s, 1, n)

TakeLast(s, n) == SubSeq(s, IF Len(s) > n THEN Len(s) - n + 1 ELSE 1, Len(s))

---------------------------------------------------------------------------
(* Tool names *)

ToolNames ==
    {"search_resources", "search_incidents", "search_tickets",
     "get_incidents", "get_resource_by_id", "get_resource_version",
     "get_resource_metadata", "get_resource_tickets",
     "get_changelog_by_resource", "get_notifications_by_resource",
     "get_incident_by_id", "get_incident_changelogs", "get_ticket_by_id",
     "query_logs"}

\* the characters of a tool or parameter name, cut at "_" and at the
\* plural "s" so that every substring test of the code can be decided
Tok(name) ==
    CASE name = "search_resources" -> <<"search", "_", "resource", "s">>
      [] name = "search_incidents" -> <<"search", "_", "incident", "s">>
      [] name = "search_tickets" -> <<"search", "_", "ticket", "s">>
      [] name = "get_incidents" -> <<"get", "_", "incident", "s">>
      [] name = "get_resource_by_id" ->
            <<"get", "_", "resource", "_", "by", "_", "id">>
      [] name = "get_resource_version" ->
            <<"get", "_", "resource", "_", "version">>
      [] name = "get_resource_metadata" ->
            <<"get", "_", "resource", "_", "metadata">>
      [] name = "get_resource_tickets" ->
            <<"get", "_", "resource", "_", "ticket", "s">>
      [] name = "get_changelog_by_resource" ->
            <<"get", "_", "changelog", "_", "by", "_", "resource">>
      [] name = "get_notifications_by_resource" ->
            <<"get", "_", "notification", "s", "_", "by", "_", "resource">>
      [] name = "get_incident_by_id" ->
            <<"get", "_", "incident", "_", "by", "_", "id">>
      [] name = "get_incident_changelogs" ->
            <<"get", "_", "incident", "_", "changelog", "s">>
      [] name = "get_ticket_by_id" ->
            <<"get", "_", "ticket", "_", "by", "_", "id">>
      [] name = "query_logs" -> <<"query", "_", "log", "s">>
      [] name = "resource_id" -> <<"resource", "_", "id">>
      [] name = "incident_id" -> <<"incident", "_", "id">>
      [] name = "ticket_id" -> <<"ticket", "_", "id">>
      [] name = "query" -> <<"query">>
      [] name = "ticket" -> <<"ticket">>

---------------------------------------------------------------------------
(* ToolExecutionAgent._validate_parameters *)

resource_id_tools ==
    {"get_resource_by_id", "get_resource_tickets", "get_resource_version",
     "get_resource_metadata", "get_changelog_by_resource",
     "get_changelog_list_by_resource", "get_notifications_by_resource"}

incident_id_tools ==
    {"get_incident_by_id", "get_incident_changelogs", "get_incident_curated"}

ticket_id_tools == {"get_ticket_by_id"}

query_tools ==
    {"search_incidents", "search_resources", "search_tickets", "query_logs",
     "query_metrics"}

\* variant with a fault: the placeholder "undefined" is accepted
InvalidValueNoPlaceholder(value) ==
    \/ value.kind = "none"
    \/ value.kind = "str" /\ value.s = ""

\* value is None or value == "undefined" or value == ""
InvalidValue(value) ==
    \/ value.kind = "none"
    \/ value.kind = "str" /\ value.s = "undefined"
    \/ value.kind = "str" /\ value.s = ""

_validate_parameters(tool_name, parameters) ==
    /\ tool_name \in resource_id_tools =>
            ~InvalidValue(Get(parameters, "resource_id"))
    /\ tool_name \in incident_id_tools =>
            ~InvalidValue(Get(parameters, "incident_id"))
    /\ tool_name \in ticket_id_tools =>
            ~InvalidValue(Get(parameters, "ticket_id"))
    /\ tool_name \in query_tools =>
            ~InvalidValue(Get(parameters, "query"))

\* the characters of the strings that the model supplies as values
StringChars(x) ==
    CASE x = "" -> <<>>
      [] x = "77" -> <<"7", "7">>
      [] x = "007" -> <<"0", "0", "7">>
      [] x = "-3" -> <<"-", "3">>
      [] x = "undefined" -> <<"u", "n", "d", "e", "f", "i", "n", "e", "d">>
      [] x = "payment" -> <<"p", "a", "y", "m", "e", "n", "t">>

DecimalDigits == {"0", "1", "2", "3", "4", "5", "6", "7", "8", "9"}

DigitValue(c) ==
    CASE c = "0" -> 0 [] c = "1" -> 1 [] c = "2" -> 2 [] c = "3" -> 3
      [] c = "4" -> 4 [] c = "5" -> 5 [] c = "6" -> 6 [] c = "7" -> 7
      [] c = "8" -> 8 [] c = "9" -> 9

\* str.isdigit(): not empty and every character is a digit
isdigit(x) ==
    /\ StringChars(x) # <<>>
    /\ \A i \in 1..Len(StringChars(x)) : StringChars(x)[i] \in DecimalDigits

RECURSIVE DigitsValue(_)
DigitsValue(chars) ==
    IF chars = <<>> THEN 0
    ELSE 10 * DigitsValue(SubSeq(chars, 1, Len(chars) - 1))
            + DigitValue(chars[Len(chars)])

\* int(value) for the values that reach it: a string of digits, an int,
\* or a float that is not negative, which is truncated
int(value) ==
    CASE value.kind = "str" -> DigitsValue(StringChars(value.s))
      [] value.kind = "int" -> value.n
      [] value.kind = "float" -> value.n \div 10

\* variant with a fault: only the identifiers are converted
integer_params_ids_only ==
    {"resource_id", "incident_id", "changelog_id", "ticket_id",
     "notification_id"}

\* _convert_parameter_types lines 89-92
integer_params ==
    {"resource_id", "incident_id", "changelog_id", "ticket_id",
     "notification_id", "page", "page_size", "limit"}

\* MCPClient._convert_parameter_types: the loop of lines 94-108; the
\* tool name is not used
_convert_parameter_types(tool_name, parameters) ==
    [key \in DOMAIN parameters |->
        LET value == parameters[key]
        IN  IF key \in integer_params /\ value.kind # "none"
            THEN IF value.kind = "str" /\ isdigit(value.s)
                 THEN IntV(int(value))
                 ELSE IF value.kind \in {"int", "float"}
                 THEN IntV(int(value))
                 ELSE value
            ELSE value]

---------------------------------------------------------------------------
(* Tool calls, payloads and result records *)

Call(name, parameters) == [name |-> name, parameters |-> parameters]

\* the body of a tool result: the dict returned by MCPClient.execute_tool
\* or built by _execute_single_tool_with_retry
Payload(resources, sample, incidents, tickets) ==
    [success |-> TRUE, error |-> <<>>, resources |-> resources,
     sample |-> sample, incidents |-> incidents, tickets |-> tickets]

EmptyPayload == Payload(<<>>, <<>>, <<>>, <<>>)

Resource(id) == [id |-> id]

\* an item of a payload list that is not a dict, a string for example:
\* item.get raises AttributeError
NotADict == Resource(-1)

IsDict(item) == item # NotADict

Incident(id, resource_mapping) ==
    [id |-> id, resource_mapping |-> resource_mapping]

Ticket(id, resourceId, incidentId) ==
    [id |-> id, resourceId |-> resourceId, incidentId |-> incidentId]

\* what the Tool Service may answer to a request that it serves
ServerPayloads(tool_name) ==
    CASE tool_name = "search_resources" ->
            {EmptyPayload, Payload(<<Resource(77)>>, <<>>, <<>>, <<>>)}
      [] tool_name = "search_incidents" ->
            {Payload(<<>>, <<>>, <<Incident(5, <<>>)>>, <<>>),
             Payload(<<>>, <<Incident(5, <<10>>)>>, <<>>, <<>>)}
      [] tool_name = "search_tickets" ->
            {Payload(<<>>, <<>>, <<>>, <<Ticket(9, 0, 0)>>),
             Payload(<<>>, <<>>, <<>>, <<Ticket(9, 20, 6)>>)}
      [] OTHER -> {EmptyPayload}

\* HTTP 200 with "success": false in the body: returned, not raised
StructuredFailure == [EmptyPayload EXCEPT !.success = FALSE]

\* variant with a fault: the message names no tool
ValidationErrorAnonymous(tool_name) ==
    <<"Missing or invalid required parameters">>

\* f"Missing or invalid required parameters for {tool_name}"
ValidationError(tool_name) ==
    <<"Missing or invalid required parameters for ">> \o Tok(tool_name)

\* the dict returned when validation fails (tool_execution_agent.py:85-89)
ValidationFailure(tool_name) ==
    [EmptyPayload EXCEPT !.success = FALSE,
                         !.error = ValidationError(tool_name)]

TransportCauses == {"timed out", "Network error"}

\* str(MCPClientError(f"Failed to execute tool {tool_name}: {str(e)}"))
TransportError(tool_name, cause) ==
    <<"Failed to execute tool ">> \o Tok(tool_name) \o <<": ", cause>>

\* the dict returned after the last attempt (tool_execution_agent.py:108-112)
TransportFailure(tool_name, cause) ==
    [EmptyPayload EXCEPT !.success = FALSE,
                         !.error = TransportError(tool_name, cause)]

\* the record add_mcp_result builds
McpResult(tool_name, result, agent_name) ==
    [tool_name |-> tool_name, result |-> result,
     success |-> result.success, agent |-> agent_name]

\* variant with a fault: the new record goes to the front of the list
add_mcp_result_front(results, tool_name, result, agent_name) ==
    <<McpResult(tool_name, result, agent_name)>> \o results

\* add_mcp_result, the tool-result list
add_mcp_result(results, tool_name, result, agent_name) ==
    Append(results, McpResult(tool_name, result, agent_name))

\* variant with a fault: the name is appended without the membership test
add_executed_tool_always(executed, tool_name) ==
    Append(executed, tool_name)

\* add_mcp_result, the executed-tools list
add_executed_tool(executed, tool_name) ==
    IF \E i \in 1..Len(executed) : executed[i] = tool_name
    THEN executed
    ELSE Append(executed, tool_name)

---------------------------------------------------------------------------
(* ComprehensiveQueryAgent._extract_ids_from_results *)

\* the dict `extracted`: keys holds the keys that are present
EmptyExtracted ==
    [keys |-> {}, resource_id |-> 0, incident_id |-> 0, ticket_id |-> 0,
     linked_resource_ids |-> <<>>, linked_incident_ids |-> <<>>]

\* data.get("sample", []) or data.get("incidents", [])
IncidentsKey(data) == IF data.sample # <<>> THEN "sample" ELSE "incidents"

IncidentsOf(data) ==
    IF IncidentsKey(data) = "sample" THEN data.sample ELSE data.incidents

\* list.append on the list that extracted["linked_resource_ids"] refers
\* to: when that list is the resource_mapping of the first incident of
\* result number alias, the result changes with it (line 160 stores the
\* list itself, line 177 appends to it)
AppendLinkedResource(acc, id) ==
    LET ex == [acc.ex EXCEPT
                  !.linked_resource_ids = Append(@, id)]
        owner == acc.alias
    IN  IF owner = 0
        THEN [acc EXCEPT !.ex = ex]
        ELSE IF IncidentsKey(acc.results[owner].result) = "sample"
        THEN [acc EXCEPT !.ex = ex,
                 !.results[owner].result.sample[1].resource_mapping =
                     Append(@, id)]
        ELSE [acc EXCEPT !.ex = ex,
                 !.results[owner].result.incidents[1].resource_mapping =
                     Append(@, id)]

\* variant with a fault: the id stored is not the id of the item
ExtractResourceOffByOne(acc, data) ==
    IF data.resources # <<>> /\ ~IsDict(data.resources[1])
    THEN [acc EXCEPT !.raised = TRUE]
    ELSE IF data.resources # <<>> /\ data.resources[1].id # 0
    THEN [acc EXCEPT !.ex.resource_id = data.resources[1].id + 1,
                     !.ex.keys = @ \cup {"resource_id", "resource_name"}]
    ELSE acc

\* lines 134-143; resource.get raises when the first item is not a dict
ExtractResource(acc, data) ==
    IF data.resources # <<>> /\ ~IsDict(data.resources[1])
    THEN [acc EXCEPT !.raised = TRUE]
    ELSE IF data.resources # <<>> /\ data.resources[1].id # 0
    THEN [acc EXCEPT !.ex.resource_id = data.resources[1].id,
                     !.ex.keys = @ \cup {"resource_id", "resource_name"}]
    ELSE acc

\* variant with a fault: a list already extracted is not replaced
ExtractIncidentKeepFirst(acc, data, i) ==
    IF IncidentsOf(data) = <<>> THEN acc
    ELSE
      LET incident == IncidentsOf(data)[1]
          a1 == IF incident.id # 0
                THEN [acc EXCEPT
                        !.ex.incident_id = incident.id,
                        !.ex.keys = @ \cup {"incident_id", "incident_title"}]
                ELSE acc
      IN  IF /\ incident.resource_mapping # <<>>
             /\ "linked_resource_ids" \notin acc.ex.keys
          THEN [a1 EXCEPT
                  !.ex.linked_resource_ids = incident.resource_mapping,
                  !.ex.keys = @ \cup {"linked_resource_ids"},
                  !.alias = i]
          ELSE a1

\* lines 146-161
ExtractIncident(acc, data, i) ==
    IF IncidentsOf(data) = <<>> THEN acc
    ELSE
      LET incident == IncidentsOf(data)[1]
          a1 == IF incident.id # 0
                THEN [acc EXCEPT
                        !.ex.incident_id = incident.id,
                        !.ex.keys = @ \cup {"incident_id", "incident_title"}]
                ELSE acc
      IN  IF incident.resource_mapping # <<>>
          THEN [a1 EXCEPT
                  !.ex.linked_resource_ids = incident.resource_mapping,
                  !.ex.keys = @ \cup {"linked_resource_ids"},
                  !.alias = i]
          ELSE a1

\* lines 164-184
ExtractTicket(acc, data) ==
    IF data.tickets = <<>> THEN acc
    ELSE
      LET ticket == data.tickets[1]
          a1 == IF ticket.id # 0
                THEN [acc EXCEPT !.ex.ticket_id = ticket.id,
                                 !.ex.keys = @ \cup {"ticket_id"}]
                ELSE acc
          a2 == IF ticket.resourceId = 0 THEN a1
                ELSE LET fresh ==
                           IF "linked_resource_ids" \in a1.ex.keys THEN a1
                           ELSE [a1 EXCEPT
                                   !.ex.linked_resource_ids = <<>>,
                                   !.ex.keys = @ \cup {"linked_resource_ids"},
                                   !.alias = 0]
                     IN  AppendLinkedResource(fresh, ticket.resourceId)
      IN  IF ticket.incidentId = 0 THEN a2
          ELSE [a2 EXCEPT
                  !.ex.linked_incident_ids = Append(@, ticket.incidentId),
                  !.ex.keys = @ \cup {"linked_incident_ids"}]

\* the body of the for loop, lines 126-184, for result number i
ExtractStep(acc, i) ==
    LET result == acc.results[i]
        name == Tok(result.tool_name)
    IN  IF ~result.success THEN acc
        ELSE IF Contains(name, Tok("search_resources"))
        THEN ExtractResource(acc, result.result)
        ELSE IF Contains(name, Tok("search_incidents"))
        THEN ExtractIncident(acc, result.result, i)
        ELSE IF \/ Contains(name, Tok("search_tickets"))
                \/ Contains(name, Tok("ticket"))
        THEN ExtractTicket(acc, result.result)
        ELSE acc

\* the for loop of line 126, inside the one try of line 125: an
\* exception in the body ends the loop
RECURSIVE ExtractLoop(_, _)
ExtractLoop(acc, i) ==
    IF i > Len(acc.results) \/ acc.raised THEN acc
    ELSE ExtractLoop(ExtractStep(acc, i), i + 1)

\* .ex is the dict the function returns, .results is the tool-result
\* list as the call leaves it; the handler of lines 188-190 returns an
\* empty dict
ExtractFrom(results) ==
    LET out == ExtractLoop([ex |-> EmptyExtracted, alias |-> 0,
                            results |-> results, raised |-> FALSE], 1)
    IN  IF out.raised THEN [out EXCEPT !.ex = EmptyExtracted] ELSE out

---------------------------------------------------------------------------
(* ComprehensiveQueryAgent.create_followup_plan *)

ResourceCall(name, id) == Call(name, [k \in {"resource_id"} |-> IntV(id)])

IncidentCall(name, id) == Call(name, [k \in {"incident_id"} |-> IntV(id)])

\* variant with a fault: metadata is asked for before the version
ResourcePlanReordered(id) ==
    <<ResourceCall("get_resource_by_id", id),
      ResourceCall("get_resource_metadata", id),
      ResourceCall("get_resource_version", id),
      ResourceCall("get_resource_tickets", id),
      ResourceCall("get_changelog_by_resource", id),
      ResourceCall("get_notifications_by_resource", id)>>

ResourcePlan(id) ==
    <<ResourceCall("get_resource_by_id", id),
      ResourceCall("get_resource_version", id),
      ResourceCall("get_resource_metadata", id),
      ResourceCall("get_resource_tickets", id),
      ResourceCall("get_changelog_by_resource", id),
      ResourceCall("get_notifications_by_resource", id)>>

IncidentPlan(id) ==
    <<IncidentCall("get_incident_by_id", id),
      IncidentCall("get_incident_changelogs", id)>>

\* variant with a fault: one call per linked resource id, without a limit
LinkedResourcePlanUncapped(ids) ==
    [i \in 1..Len(ids) |-> ResourceCall("get_resource_by_id", ids[i])]

LinkedResourcePlan(ids) ==
    [i \in 1..Len(Take(ids, linked_limit)) |->
        ResourceCall("get_resource_by_id", ids[i])]

LinkedIncidentPlan(ids) ==
    [i \in 1..Len(Take(ids, linked_limit)) |->
        IncidentCall("get_incident_by_id", ids[i])]

\* followup_tools as line 256 finds it
FollowupTools(ex) ==
    (IF "resource_id" \in ex.keys
        THEN ResourcePlan(ex.resource_id) ELSE <<>>)
    \o (IF "incident_id" \in ex.keys
        THEN IncidentPlan(ex.incident_id) ELSE <<>>)
    \o (IF "linked_resource_ids" \in ex.keys
        THEN LinkedResourcePlan(ex.linked_resource_ids) ELSE <<>>)
    \o (IF "linked_incident_ids" \in ex.keys
        THEN LinkedIncidentPlan(ex.linked_incident_ids) ELSE <<>>)

\* the value of state["followup_tool_plan"] after create_followup_plan
create_followup_plan(needs_followup, ex, old_plan) ==
    IF ~needs_followup \/ ex.keys = {} THEN old_plan
    ELSE IF FollowupTools(ex) # <<>> THEN FollowupTools(ex)
    ELSE old_plan

comprehensive_tools ==
    {"get_resource_by_id", "get_resource_version", "get_resource_metadata",
     "get_changelog_by_resource", "get_resource_tickets",
     "get_notifications_by_resource", "get_incident_by_id",
     "get_incident_changelogs"}

---------------------------------------------------------------------------
(* User queries, oracle answers and stored conversations *)

\* a query text with what the code computes from it: len(user_query) and
\* the two keyword tests of analyze_and_expand
Query(text, len, comprehensive_keyword, cross_entity_keyword) ==
    [text |-> text, len |-> len,
     comprehensive_keyword |-> comprehensive_keyword,
     cross_entity_keyword |-> cross_entity_keyword]

Queries ==
    {Query("hi", 2, FALSE, FALSE),
     Query("show incidents", 14, FALSE, FALSE),
     Query("everything about vector-0", 25, TRUE, FALSE),
     Query("payment incidents and related tickets", 37, FALSE, TRUE),
     Query("a text of 1001 characters", 1001, FALSE, FALSE)}

Analysis(type, comprehensive, scope, intent, multi_entity) ==
    [query_type |-> type, comprehensive |-> comprehensive, scope |-> scope,
     intent |-> intent, multi_entity |-> multi_entity]

\* llm_analysis of a state that query analysis did not fill: every .get
\* of analyze_and_expand returns its default
EmptyAnalysis == Analysis("general", FALSE, "", "", FALSE)

\* LLMDecisionMaker._fallback_query_analysis
FallbackAnalysis == Analysis("conversational", FALSE, "", "", FALSE)

OracleAnalyses ==
    {Analysis("conversational", FALSE, "", "", FALSE),
     Analysis("infrastructure_query", TRUE, "single", "get details", FALSE),
     Analysis("multi_entity_summary", FALSE, "all", "summary", TRUE),
     Analysis("exploration", FALSE, "multiple", "list", FALSE)}

\* any(keyword in intent for keyword in detailed_intent_keywords)
WantsDetails(intent) == intent \in {"get details"}

QueryParam(text) == [k \in {"query"} |-> StrV(text)]

PlanEntries ==
    {Call("search_resources", QueryParam("vector-0")),
     Call("search_incidents", QueryParam("payment")),
     Call("search_tickets", QueryParam("payment")),
     Call("get_resource_by_id", [k \in {"resource_id"} |-> StrV("undefined")])}

\* LLMDecisionMaker._fallback_tool_planning
FallbackPlan == <<Call("get_incidents", NoParams)>>

Plans == UNION {[1..n -> PlanEntries] : n \in 0..MaxPlanLen}

Message(role, content) == [role |-> role, content |-> content]

---------------------------------------------------------------------------
(* OrchestratorAgent *)

\* variant with a fault: a query above the maximum is an error
_validate_initial_state_strict(query) ==
    LET errors == (IF query.len = 0 THEN 1 ELSE 0)
                  + (IF query.len < minimum_query_length THEN 1 ELSE 0)
                  + (IF query.len > maximum_query_length THEN 1 ELSE 0)
    IN  [valid |-> errors = 0, errors |-> errors, warnings |-> 0]

\* errors and warnings are the lengths of the two lists; session_id and
\* request_id are always set by create_initial_state
_validate_initial_state(query) ==
    LET errors == (IF query.len = 0 THEN 1 ELSE 0)
                  + (IF query.len < minimum_query_length THEN 1 ELSE 0)
        warnings == IF query.len > maximum_query_length THEN 1 ELSE 0
    IN  [valid |-> errors = 0, errors |-> errors, warnings |-> warnings]

\* the fields of the state orchestrate_workflow returns
orchestrate_workflow(query, count, response) ==
    LET validation == _validate_initial_state(query)
    IN  IF ~validation.valid
        THEN [workflow_status |-> "failed",
              error_count |-> validation.errors,
              final_response |-> "Request validation failed"]
        ELSE [workflow_status |-> "running",
              error_count |-> count,
              final_response |-> response]

---------------------------------------------------------------------------
(* ComprehensiveQueryAgent.analyze_and_expand, lines 61-66 *)

should_expand(query, analysis) ==
    \/ analysis.comprehensive
    \/ query.comprehensive_keyword
    \/ analysis.scope = "single" /\ WantsDetails(analysis.intent)
    \/ analysis.multi_entity /\ query.cross_entity_keyword

\* variant with a fault: the executed tools are not looked at
already_comprehensive_never(executed) == FALSE

already_comprehensive(executed) ==
    \E i \in 1..Len(executed) : executed[i] \in comprehensive_tools

---------------------------------------------------------------------------
(* The turn: EnhancedLangGraphWorkflow.process_query and the graph nodes *)

\* the part of a ChatState that the state helpers touch, as
\* create_initial_state builds it: two empty lists and an empty dict
StateValue(results, executed, context) ==
    [mcp_results |-> results, executed_tools |-> executed,
     context_data |-> context]

\* no state helper has been called on its own: returned_state is the
\* empty list, and after a call the list of the one dict returned
HelpersIdle ==
    /\ passed_state = StateValue(<<>>, <<>>, <<>>)
    /\ returned_state = <<>>

\* the turns that may overlap on the one workflow object of graph.py; a
\* turn passes its own sink, and 0 stands for no sink
Turns == {1, 2}

NoSink == 0

Sink(turn) == turn

\* no process_query call is in progress; __init__ does not set
\* _current_websocket
SessionsIdle ==
    /\ turn_pc = [turn \in Turns |-> "idle"]
    /\ _current_websocket = NoSink
    /\ sent = <<>>

\* create_initial_state lines 95 and 127: no confidence, no badges
BadgesIdle ==
    /\ confidence_score = 0
    /\ annotations = <<>>

\* __init__ line 43: a MemorySaver that holds no thread; "none" is the
\* thread id when no turn has been started
CheckpointsIdle ==
    /\ memory = [thread \in {} |-> <<>>]
    /\ thread_id = "none"

\* the workflow object after construction: the checkpointer is empty
Init ==
    /\ pc = "idle"
    /\ conversation_history = <<>>
    /\ user_query = Query("", 0, FALSE, FALSE)
    /\ workflow_status = "initialized"
    /\ error_count = 0
    /\ query_type = "general"
    /\ llm_analysis = EmptyAnalysis
    /\ tool_plan = <<>>
    /\ executed_tools = <<>>
    /\ mcp_results = <<>>
    /\ needs_comprehensive_followup = FALSE
    /\ extracted_ids = EmptyExtracted
    /\ followup_tool_plan = <<>>
    /\ final_response = ""
    /\ validation_result = [valid |-> TRUE, errors |-> 0, warnings |-> 0]
    /\ exec_phase = "idle"
    /\ exec_index = 0
    /\ attempt = 0
    /\ original_plan = <<>>
    /\ results_before = <<>>
    /\ attempt_log = <<>>
    /\ oracle_calls = 0
    /\ HelpersIdle
    /\ SessionsIdle
    /\ BadgesIdle
    /\ CheckpointsIdle

execVars == <<exec_phase, exec_index, attempt, original_plan, results_before>>

followupVars ==
    <<needs_comprehensive_followup, extracted_ids, followup_tool_plan>>

\* process_query up to the start of the graph: create_initial_state with
\* the stored conversation_history
ProcessQuery ==
    /\ pc = "idle"
    /\ \E query \in Queries : user_query' = query
    /\ pc' = "start"
    /\ UNCHANGED <<workflow_status, error_count, query_type, llm_analysis,
                   tool_plan, executed_tools, mcp_results, followupVars,
                   final_response, conversation_history, validation_result,
                   execVars, attempt_log, oracle_calls>>
    /\ UNCHANGED <<helperVars, sessionVars, badgeVars, checkpointVars>>


\* variant with a fault: a query that fails the initial validation ends
\* the turn at the start node
OrchestratorStartNodeAborting ==
    /\ pc = "start"
    /\ LET updated_state ==
               orchestrate_workflow(user_query, error_count, final_response)
       IN  /\ validation_result' = _validate_initial_state(user_query)
           /\ error_count' = updated_state.error_count
           /\ final_response' = updated_state.final_response
           /\ workflow_status' =
                 IF _validate_initial_state(user_query).valid
                 THEN "running" ELSE "failed"
           /\ pc' = IF _validate_initial_state(user_query).valid
                    THEN "analyze" ELSE "done"
    /\ UNCHANGED <<user_query, query_type, llm_analysis, tool_plan,
                   executed_tools, mcp_results, followupVars,
                   conversation_history, execVars, attempt_log,
                   oracle_calls>>
    /\ UNCHANGED <<helperVars, sessionVars, badgeVars, checkpointVars>>

\* _orchestrator_start_node: line 99 sets workflow_status after
\* orchestrate_workflow has returned
OrchestratorStartNode ==
    /\ pc = "start"
    /\ LET updated_state ==
               orchestrate_workflow(user_query, error_count, final_response)
       IN  /\ validation_result' = _validate_initial_state(user_query)
           /\ error_count' = updated_state.error_count
           /\ final_response' = updated_state.final_response
           /\ workflow_status' = "running"
    /\ pc' = "analyze"
    /\ UNCHANGED <<user_query, query_type, llm_analysis, tool_plan,
                   executed_tools, mcp_results, followupVars,
                   conversation_history, execVars, attempt_log,
                   oracle_calls>>
    /\ UNCHANGED <<helperVars, sessionVars, badgeVars, checkpointVars>>


\* analyze_query lines 25-66, for an analysis and a plan that the two
\* oracle operations return: line 52 copies the confidence of the
\* analysis to the state, lines 58-61 store the analysis and the plan
\* under context_data["query_analysis"]
analyze_query(analyses, plans) ==
    /\ pc = "analyze"
    /\ \E analysis \in analyses, plan \in plans :
          /\ query_type' = analysis.query_type
          /\ confidence_score' =
                IF "confidence_score" \in DOMAIN analysis
                THEN analysis.confidence_score ELSE 0
          /\ llm_analysis' = analysis
          /\ tool_plan' = plan
    /\ oracle_calls' = oracle_calls + 2
    /\ pc' = "execute"
    /\ UNCHANGED <<user_query, workflow_status, error_count, executed_tools,
                   mcp_results, followupVars, final_response,
                   conversation_history, validation_result, execVars,
                   attempt_log>>
    /\ UNCHANGED <<helperVars, sessionVars, annotations, checkpointVars>>

\* _query_analysis_node, analyze_query lines 25-66: each of the two
\* oracle operations answers or falls back inside llm_client
QueryAnalysisNode ==
    analyze_query(OracleAnalyses \cup {FallbackAnalysis},
                  Plans \cup {FallbackPlan})


\* analyze_query lines 68-74: an exception reaches the handler of
\* analyze_query. The oracle operations catch their own failures and
\* answer with a fallback (llm_client.py lines 214-216 and 395-397), so a
\* failed oracle call takes QueryAnalysisNode, not this path
QueryAnalysisFails ==
    /\ pc = "analyze"
    /\ error_count' = error_count + 1
    /\ workflow_status' = "degraded"
    /\ oracle_calls' = oracle_calls + 1
    /\ pc' = "execute"
    /\ UNCHANGED <<user_query, query_type, llm_analysis, tool_plan,
                   executed_tools, mcp_results, followupVars, final_response,
                   conversation_history, validation_result, execVars,
                   attempt_log>>
    /\ UNCHANGED <<helperVars, sessionVars, badgeVars, checkpointVars>>


\* _tool_execution_node and execute_tools up to the for loop: lines
\* 113-123 send the event that names the tools of the plan when the
\* workflow object holds a sink and the plan is not empty, then
\* execute_tools is called
ToolExecutionNode ==
    /\ pc = "execute"
    /\ exec_phase = "idle"
    /\ sent' = IF _current_websocket # NoSink /\ tool_plan # <<>>
               THEN Append(sent,
                           [kind |-> "on_tool_call",
                            sink |-> _current_websocket,
                            tools |-> [k \in 1..Len(tool_plan) |->
                                          tool_plan[k].name],
                            count |-> Len(tool_plan)])
               ELSE sent
    /\ results_before' = mcp_results
    /\ IF query_type = "conversational"
       THEN /\ workflow_status' = "completed"
            /\ pc' = "check"
            /\ UNCHANGED <<exec_phase, exec_index, attempt>>
       ELSE /\ exec_phase' = "primary"
            /\ exec_index' = 1
            /\ attempt' = 0
            /\ UNCHANGED <<pc, workflow_status>>
    /\ UNCHANGED <<user_query, error_count, query_type, llm_analysis,
                   tool_plan, executed_tools, mcp_results, followupVars,
                   final_response, conversation_history, validation_result,
                   original_plan, attempt_log, oracle_calls>>
    /\ UNCHANGED <<helperVars, turn_pc, _current_websocket, badgeVars,
                   checkpointVars>>


\* variant with a fault: the loop stops before the last entry of the plan
InLoopBeforeLast == exec_phase # "idle" /\ exec_index < Len(tool_plan)

\* execute_tools line 42: the for loop is at an entry of the plan
InLoop == exec_phase # "idle" /\ exec_index <= Len(tool_plan)

tool_info == tool_plan[exec_index]

\* variant with a fault: a failed call ends the loop
NextEntryAbortOnFailure(result) ==
    IF result.success THEN exec_index + 1 ELSE Len(tool_plan) + 1

\* execute_tools line 42: the for loop goes to the next entry whatever
\* the result was
NextEntry(result) == exec_index + 1

\* execute_tools lines 43-54: add the result and go to the next entry
RecordResult(result) ==
    /\ mcp_results' = add_mcp_result(mcp_results, tool_info.name, result,
                                     "ToolExecutionAgent")
    /\ executed_tools' = add_executed_tool(executed_tools, tool_info.name)
    /\ exec_index' = NextEntry(result)
    /\ attempt' = 0

\* variant with a fault: the first raised failure is final
RetryNever(n) == FALSE

\* line 104: another attempt follows attempt number n
RetryAgain(n) == n < max_retries - 1

\* the plan entries so far with a call of client.execute_tool that
\* counts as a fault
FaultyCalls ==
    {<<attempt_log[i].phase, attempt_log[i].index>> :
        i \in {j \in 1..Len(attempt_log) : attempt_log[j].fault}}

FaultAllowed ==
    \/ <<exec_phase, exec_index>> \in FaultyCalls
    \/ Cardinality(FaultyCalls) < MaxFaultyCalls

\* a call of client.execute_tool: parameters holds what the requests of
\* the call carry (mcp_client.py lines 117 and 147-149)
Attempt(raised, cause, requests, fault) ==
    [phase |-> exec_phase, index |-> exec_index, tool |-> tool_info.name,
     attempt |-> attempt, raised |-> raised, cause |-> cause,
     requests |-> requests, fault |-> fault,
     parameters |->
         _convert_parameter_types(tool_info.name, tool_info.parameters)]

loopFrame ==
    <<pc, user_query, workflow_status, error_count, query_type, llm_analysis,
      tool_plan, followupVars, final_response, conversation_history,
      validation_result, exec_phase, original_plan, results_before,
      oracle_calls, helperVars, sessionVars, badgeVars, checkpointVars>>

\* _execute_single_tool_with_retry lines 83-89
RejectInvalidCall ==
    /\ InLoop
    /\ ~_validate_parameters(tool_info.name, tool_info.parameters)
    /\ RecordResult(ValidationFailure(tool_info.name))
    /\ UNCHANGED <<attempt_log>>
    /\ UNCHANGED loopFrame

\* variant with a fault: a result that reports a failure is treated as
\* an attempt that raised
ReturnedOnlyOnSuccess(result) == result.success

\* line 99: return result, whatever the dict that came back holds
Returned(result) == TRUE

\* lines 91-101: client.execute_tool returns; failed is the number of
\* requests that failed before the Tool Service answered (mcp_client.py
\* lines 124-135), and the answer is a payload or a structured failure
AttemptReturns ==
    /\ InLoop
    /\ _validate_parameters(tool_info.name, tool_info.parameters)
    /\ attempt < max_retries
    /\ \E failed \in 0..(client_max_retries - 1),
          result \in ServerPayloads(tool_info.name) \cup {StructuredFailure} :
          /\ LET fault == failed > 0 \/ ~result.success
             IN  /\ fault => FaultAllowed
                 /\ attempt_log' =
                       Append(attempt_log,
                              Attempt(FALSE, "", failed + 1, fault))
          /\ IF Returned(result) \/ ~RetryAgain(attempt)
             THEN RecordResult(result)
             ELSE /\ attempt' = attempt + 1
                  /\ UNCHANGED <<mcp_results, executed_tools, exec_index>>
    /\ UNCHANGED loopFrame

\* variant with a fault: the client gives up one round early
RequestsBeforeRaiseEarly == client_max_retries - 1

\* mcp_client.py lines 124-135: execute_tool sends a request per round of
\* its own loop and raises when the last round has failed
RequestsBeforeRaise == client_max_retries

\* lines 103-112: client.execute_tool raises after client_max_retries
\* failed requests; the last attempt records the failure
AttemptRaises ==
    /\ InLoop
    /\ _validate_parameters(tool_info.name, tool_info.parameters)
    /\ attempt < max_retries
    /\ FaultAllowed
    /\ \E cause \in TransportCauses :
          /\ attempt_log' =
                Append(attempt_log,
                       Attempt(TRUE, cause, RequestsBeforeRaise, TRUE))
          /\ IF RetryAgain(attempt)
             THEN /\ attempt' = attempt + 1
                  /\ UNCHANGED <<mcp_results, executed_tools, exec_index>>
             ELSE RecordResult(TransportFailure(tool_info.name, cause))
    /\ UNCHANGED loopFrame

\* variant with a fault: the follow-up plan replaces the recorded plan
MergedPlanFollowupOnly(original, followup) == followup

\* _comprehensive_followup_node line 176: original_plan + followup_plan
MergedPlan(original, followup) == original \o followup

\* execute_tools lines 56-66 and, for the follow-up,
\* _comprehensive_followup_node lines 175-184
ExecuteToolsReturns ==
    /\ exec_phase # "idle"
    /\ exec_index > Len(tool_plan)
    /\ IF exec_phase = "primary"
       THEN /\ pc' = "check"
            /\ UNCHANGED <<tool_plan, followupVars>>
       ELSE /\ pc' = "enrich"
            /\ tool_plan' = MergedPlan(original_plan, followup_tool_plan)
            /\ needs_comprehensive_followup' = FALSE
            /\ followup_tool_plan' = <<>>
            /\ UNCHANGED <<extracted_ids>>
    /\ exec_phase' = "idle"
    /\ UNCHANGED <<user_query, workflow_status, error_count, query_type,
                   llm_analysis, executed_tools, mcp_results, final_response,
                   conversation_history, validation_result, exec_index,
                   attempt, original_plan, results_before, attempt_log,
                   oracle_calls>>
    /\ UNCHANGED <<helperVars, sessionVars, badgeVars, checkpointVars>>


\* _comprehensive_check_node: analyze_and_expand
ComprehensiveCheckNode ==
    /\ pc = "check"
    /\ LET extraction == ExtractFrom(mcp_results)
       IN  IF ~should_expand(user_query, llm_analysis)
           THEN UNCHANGED <<mcp_results, needs_comprehensive_followup,
                            extracted_ids>>
           ELSE /\ mcp_results' = extraction.results
                /\ IF \/ extraction.ex.keys = {}
                      \/ already_comprehensive(executed_tools)
                   THEN UNCHANGED <<needs_comprehensive_followup,
                                    extracted_ids>>
                   ELSE /\ needs_comprehensive_followup' = TRUE
                        /\ extracted_ids' = extraction.ex
    /\ pc' = "followup"
    /\ UNCHANGED <<user_query, workflow_status, error_count, query_type,
                   llm_analysis, tool_plan, executed_tools,
                   followup_tool_plan, final_response, conversation_history,
                   validation_result, execVars, attempt_log, oracle_calls>>
    /\ UNCHANGED <<helperVars, sessionVars, badgeVars, checkpointVars>>


\* _comprehensive_followup_node lines 134-173, with execute_tools up to
\* the for loop
ComprehensiveFollowupNode ==
    /\ pc = "followup"
    /\ exec_phase = "idle"
    /\ LET followup_plan ==
               create_followup_plan(needs_comprehensive_followup,
                                    extracted_ids, followup_tool_plan)
       IN  IF ~needs_comprehensive_followup
           THEN /\ pc' = "enrich"
                /\ UNCHANGED <<tool_plan, followupVars, workflow_status,
                               execVars>>
           ELSE IF followup_plan = <<>>
           THEN /\ pc' = "enrich"
                /\ UNCHANGED <<tool_plan, followupVars, workflow_status,
                               execVars>>
           ELSE IF query_type = "conversational"
           THEN /\ pc' = "enrich"
                /\ workflow_status' = "completed"
                /\ tool_plan' = tool_plan \o followup_plan
                /\ needs_comprehensive_followup' = FALSE
                /\ followup_tool_plan' = <<>>
                /\ results_before' = mcp_results
                /\ UNCHANGED <<extracted_ids, exec_phase, exec_index,
                               attempt, original_plan>>
           ELSE /\ original_plan' = tool_plan
                /\ tool_plan' = followup_plan
                /\ followup_tool_plan' = followup_plan
                /\ results_before' = mcp_results
                /\ exec_phase' = "followup"
                /\ exec_index' = 1
                /\ attempt' = 0
                /\ UNCHANGED <<pc, workflow_status,
                               needs_comprehensive_followup, extracted_ids>>
    /\ UNCHANGED <<user_query, error_count, query_type, llm_analysis,
                   executed_tools, mcp_results, final_response,
                   conversation_history, validation_result, attempt_log,
                   oracle_calls>>
    /\ UNCHANGED <<helperVars, sessionVars, badgeVars, checkpointVars>>


\* LLMDecisionMaker._fallback_response_generation: the text does not
\* depend on the state it is given
_fallback_response_generation ==
    "I'm having trouble connecting to the tools right now."

\* ResponseEnrichmentAgent._create_smart_fallback_response, by the case
\* it takes: without a successful result the text says that the tools
\* provided no data, otherwise it lists the successful results (the
\* count and the labels of the items are left out of the text here)
_create_smart_fallback_response(results) ==
    IF \A i \in 1..Len(results) : ~results[i].success
    THEN "I attempted to analyze the query, but the tools provided no data."
    ELSE "I executed the tools. Here are the results"

\* _create_smart_fallback_response lines 116-148: what the text holds
\* after its first line, one entry for each successful result with the
\* name of its tool and its bullets. successful_tools are the records
\* with a true success (line 116); found_list is the first list of the
\* payload, in the order of the keys that the function tries and the
\* payloads of the model have, an empty list standing for an absent key
\* (lines 130-135); a bullet is made for each of the first three items
\* (line 139) from its title or message or name or id, or "Item" (lines
\* 140-141), an empty string or 0 being a field that is absent or falsy
response_lines(results) ==
    LET Succeeded(result) == result.success
        successful_tools == SelectSeq(results, Succeeded)
        found_list(data) ==
            IF data.incidents # <<>> THEN data.incidents
            ELSE IF data.resources # <<>> THEN data.resources
            ELSE data.tickets
        item_label(item) ==
            IF item.title # "" THEN <<"title", item.title>>
            ELSE IF item.message # "" THEN <<"message", item.message>>
            ELSE IF item.name # "" THEN <<"name", item.name>>
            ELSE IF item.id # 0 THEN <<"id", item.id>>
            ELSE <<"Item">>
        result_labels(data) ==
            [k \in 1..(IF Len(found_list(data)) > 3 THEN 3
                       ELSE Len(found_list(data))) |->
                item_label(found_list(data)[k])]
    IN  [k \in 1..Len(successful_tools) |->
            [tool_name |-> successful_tools[k].tool_name,
             labels |-> result_labels(successful_tools[k].result)]]

\* enrich_response lines 99-108: an exception outside the inner try,
\* that is after the oracle has answered, reaches the outer handler,
\* which answers with the smart fallback and counts an error
EnrichResponseFails ==
    /\ pc = "enrich"
    /\ final_response' = _create_smart_fallback_response(mcp_results)
    /\ error_count' = error_count + 1
    /\ oracle_calls' = oracle_calls + 1
    /\ pc' = "finish"
    /\ UNCHANGED <<user_query, workflow_status, query_type,
                   llm_analysis, tool_plan, executed_tools, mcp_results,
                   followupVars, conversation_history, validation_result,
                   execVars, attempt_log>>
    /\ UNCHANGED <<helperVars, sessionVars, badgeVars, checkpointVars>>

\* context_data.get("query_analysis", {}): the dict that analyze_query
\* lines 58-61 stored, with the two keys "llm_analysis" and "tool_plan"
\* and the plan of the analysis, or the empty dict when analyze_query
\* stored nothing
query_analysis ==
    IF llm_analysis = EmptyAnalysis
    THEN [key \in {} |-> 0]
    ELSE [llm_analysis |-> llm_analysis,
          tool_plan |-> IF original_plan # <<>> THEN original_plan
                        ELSE tool_plan]

\* _create_structured_annotations lines 206-272: the execution badge,
\* the confidence badge, the query type badge, the service badge and
\* the timestamp badge, each under its condition; a badge is kept as
\* what it shows and its "type". Lines 219-221 and 253 read the
\* confidence and the service name with .get from the query_analysis
\* dict of the context; lines 223-231 choose the type of the confidence
\* badge, the confidence being held in percent
_create_structured_annotations ==
    LET Badge(kind, type) == [kind |-> kind, type |-> type]
        confidence ==
            IF "confidence_score" \in DOMAIN query_analysis
            THEN query_analysis.confidence_score ELSE 0
        service_name ==
            IF "strict_service_name" \in DOMAIN query_analysis
            THEN query_analysis.strict_service_name ELSE ""
        confidence_type ==
            IF confidence > 80 THEN "success"
            ELSE IF confidence > 50 THEN "warning"
            ELSE "error"
    IN  (IF executed_tools # <<>>
         THEN <<Badge("execution", "info")>> ELSE <<>>)
        \o (IF confidence > 0
            THEN <<Badge("confidence", confidence_type)>>
            ELSE <<>>)
        \o (IF query_type # ""
            THEN <<Badge("query_type", "default")>> ELSE <<>>)
        \o (IF service_name # ""
            THEN <<Badge("service", "primary")>> ELSE <<>>)
        \o <<Badge("timestamp", "default")>>

\* _response_enrichment_node: enrich_response with the text that
\* generate_enriched_response returns (llm_client.py lines 812-821, 857)
\* and the annotations of line 68; the handler of enrich_response that
\* builds the smart fallback is not reached from the oracle, because
\* generate_enriched_response catches every failure of the oracle and
\* returns a dict
ResponseEnrichmentNode ==
    /\ pc = "enrich"
    /\ final_response' \in {"narrative", _fallback_response_generation}
    /\ annotations' = _create_structured_annotations
    /\ oracle_calls' = oracle_calls + 1
    /\ pc' = "finish"
    /\ UNCHANGED <<user_query, workflow_status, error_count, query_type,
                   llm_analysis, tool_plan, executed_tools, mcp_results,
                   followupVars, conversation_history, validation_result,
                   execVars, attempt_log>>
    /\ UNCHANGED <<helperVars, sessionVars, confidence_score,
                   checkpointVars>>


\* variant with a fault: the finish node keeps the status it finds
FinishStatusKept == workflow_status

\* _orchestrator_finish_node line 223
FinishStatus == "completed"

\* _orchestrator_finish_node
OrchestratorFinishNode ==
    /\ pc = "finish"
    /\ conversation_history' =
          TakeLast(conversation_history
                      \o <<Message("user", user_query.text),
                           Message("assistant", final_response)>>,
                   history_limit)
    /\ workflow_status' = FinishStatus
    /\ pc' = "done"
    /\ UNCHANGED <<user_query, error_count, query_type, llm_analysis,
                   tool_plan, executed_tools, mcp_results, followupVars,
                   final_response, validation_result, execVars, attempt_log,
                   oracle_calls>>
    /\ UNCHANGED <<helperVars, sessionVars, badgeVars, checkpointVars>>


Next ==
    \/ ProcessQuery
    \/ OrchestratorStartNode
    \/ QueryAnalysisNode
    \/ QueryAnalysisFails
    \/ ToolExecutionNode
    \/ RejectInvalidCall
    \/ AttemptReturns
    \/ AttemptRaises
    \/ ExecuteToolsReturns
    \/ ComprehensiveCheckNode
    \/ ComprehensiveFollowupNode
    \/ ResponseEnrichmentNode
    \/ OrchestratorFinishNode

Spec == Init /\ [][Next]_vars

---------------------------------------------------------------------------
(* The Tool Invoker on its own: execute_tools with a plan of one call,   *)
(* the call drawn from every tool and every value of its parameter       *)

\* the parameter dicts of a call: empty, or one name with one value
ParamMaps ==
    LET ParamNames ==
            {"resource_id", "incident_id", "ticket_id", "query", "limit"}
        ParamValues ==
            {NoneV, StrV(""), StrV("undefined"), StrV("77"), IntV(77),
             StrV("payment"), StrV("007"), StrV("-3"), FloatV(75)}
    IN  {NoParams} \cup
        UNION {{[k \in {name} |-> value] : value \in ParamValues} :
                  name \in ParamNames}

InvokerCalls == {Call(name, parameters) :
                    name \in ToolNames, parameters \in ParamMaps}

\* the state in which execute_tools enters its loop, in a turn whose
\* query passed validation and whose plan is one call
InitInvoker ==
    /\ pc = "execute"
    /\ conversation_history = <<>>
    /\ user_query = Query("show incidents", 14, FALSE, FALSE)
    /\ workflow_status = "running"
    /\ error_count = 0
    /\ query_type = "exploration"
    /\ llm_analysis = Analysis("exploration", FALSE, "multiple", "list", FALSE)
    /\ \E call \in InvokerCalls : tool_plan = <<call>>
    /\ executed_tools = <<>>
    /\ mcp_results = <<>>
    /\ needs_comprehensive_followup = FALSE
    /\ extracted_ids = EmptyExtracted
    /\ followup_tool_plan = <<>>
    /\ final_response = ""
    /\ validation_result = [valid |-> TRUE, errors |-> 0, warnings |-> 0]
    /\ exec_phase = "primary"
    /\ exec_index = 1
    /\ attempt = 0
    /\ original_plan = <<>>
    /\ results_before = <<>>
    /\ attempt_log = <<>>
    /\ oracle_calls = 2
    /\ HelpersIdle
    /\ SessionsIdle
    /\ BadgesIdle
    /\ CheckpointsIdle

NextInvoker ==
    \/ RejectInvalidCall
    \/ AttemptReturns
    \/ AttemptRaises
    \/ ExecuteToolsReturns

SpecInvoker == InitInvoker /\ [][NextInvoker]_vars

---------------------------------------------------------------------------
(* The expansion on its own: the extractor and the follow-up planner     *)
(* after an execute stage whose searches all succeeded, the results      *)
(* drawn from lists with up to MaxLinked linked ids of each kind         *)

IdRange(base, n) == [k \in 1..n |-> base + k]

\* a record of a search that the Tool Service served
SearchResult(tool_name, payload) ==
    McpResult(tool_name, payload, "ToolExecutionAgent")

\* no resource search, one, two that found different resources, and
\* searches with a first item that is not a dict
ResourceResults ==
    {<<>>,
     <<SearchResult("search_resources",
                    Payload(<<Resource(77)>>, <<>>, <<>>, <<>>))>>,
     <<SearchResult("search_resources",
                    Payload(<<Resource(77)>>, <<>>, <<>>, <<>>)),
       SearchResult("search_resources",
                    Payload(<<Resource(78)>>, <<>>, <<>>, <<>>))>>,
     <<SearchResult("search_resources",
                    Payload(<<NotADict>>, <<>>, <<>>, <<>>))>>,
     <<SearchResult("search_resources",
                    Payload(<<Resource(77)>>, <<>>, <<>>, <<>>)),
       SearchResult("search_resources",
                    Payload(<<NotADict>>, <<>>, <<>>, <<>>))>>}

\* one or two incident searches; the first item of each carries a
\* resource_mapping
IncidentResult(id, resource_mapping) ==
    SearchResult("search_incidents",
                 Payload(<<>>, <<Incident(id, resource_mapping)>>, <<>>, <<>>))

IncidentResults ==
    {<<>>}
    \cup {<<IncidentResult(5, IdRange(100, n))>> : n \in 0..MaxLinked}
    \cup {<<IncidentResult(5, IdRange(100, n)),
            IncidentResult(6, IdRange(110, m))>> :
              n \in {1, MaxLinked}, m \in 0..2}

\* n ticket searches; the first item of each names an incident and, when
\* resources is true, a resource
TicketResults ==
    {[k \in 1..n |->
         SearchResult("search_tickets",
                      Payload(<<>>, <<>>, <<>>,
                              <<Ticket(9, IF resources THEN 20 + k ELSE 0,
                                       200 + k)>>))] :
        n \in 0..MaxLinked, resources \in BOOLEAN}

\* the plan ended with a comprehensive-class call, or did not; a
\* get_incident_by_id call was served with the incident asked for, which
\* references two resources
DetailResults ==
    {<<>>, <<SearchResult("get_resource_by_id", EmptyPayload)>>,
     <<SearchResult("get_incident_by_id",
                    Payload(<<>>, <<>>, <<Incident(1507, IdRange(100, 2))>>,
                            <<>>))>>}

ExpandResults ==
    {resources \o incidents \o tickets \o details :
        resources \in ResourceResults, incidents \in IncidentResults,
        tickets \in TicketResults, details \in DetailResults}

\* executed_tools after add_mcp_result has added the records in order
RECURSIVE ExecutedAfter(_)
ExecutedAfter(results) ==
    IF results = <<>> THEN <<>>
    ELSE add_executed_tool(ExecutedAfter(SubSeq(results, 1, Len(results) - 1)),
                           results[Len(results)].tool_name)

\* the state in which the comprehensive_check node is entered, in a turn
\* with a comprehensive classification
InitExpand ==
    /\ pc = "check"
    /\ conversation_history = <<>>
    /\ user_query = Query("everything about vector-0", 25, TRUE, FALSE)
    /\ workflow_status = "running"
    /\ error_count = 0
    /\ query_type = "infrastructure_query"
    /\ llm_analysis =
          Analysis("infrastructure_query", TRUE, "single", "get details", FALSE)
    /\ \E results \in ExpandResults :
          /\ mcp_results = results
          /\ executed_tools = ExecutedAfter(results)
          /\ tool_plan = [k \in 1..Len(results) |->
                             IF results[k].tool_name = "get_resource_by_id"
                             THEN ResourceCall("get_resource_by_id", 77)
                             ELSE IF results[k].tool_name
                                        = "get_incident_by_id"
                             THEN IncidentCall("get_incident_by_id", 1507)
                             ELSE Call(results[k].tool_name,
                                       QueryParam("payment"))]
    /\ needs_comprehensive_followup = FALSE
    /\ extracted_ids = EmptyExtracted
    /\ followup_tool_plan = <<>>
    /\ final_response = ""
    /\ validation_result = [valid |-> TRUE, errors |-> 0, warnings |-> 0]
    /\ exec_phase = "idle"
    /\ exec_index = 0
    /\ attempt = 0
    /\ original_plan = <<>>
    /\ results_before = <<>>
    /\ attempt_log = <<>>
    /\ oracle_calls = 2
    /\ HelpersIdle
    /\ SessionsIdle
    /\ BadgesIdle
    /\ CheckpointsIdle

\* up to the point where execute_tools enters its loop on the follow-up
\* plan; Spec covers the execution of a follow-up plan
NextExpand ==
    \/ ComprehensiveCheckNode
    \/ ComprehensiveFollowupNode

SpecExpand == InitExpand /\ [][NextExpand]_vars

---------------------------------------------------------------------------
(* The turn without tools: the stages after a query analysis that left   *)
(* the tool plan empty                                                   *)

\* the state in which the tool_execution node is entered: the oracle
\* answered with a classification and an empty plan, or analyze_query
\* failed and left the plan of create_initial_state
InitQuiet ==
    /\ pc = "execute"
    /\ conversation_history = <<>>
    /\ \E query \in Queries :
          /\ user_query = query
          /\ validation_result = _validate_initial_state(query)
          /\ final_response = orchestrate_workflow(query, 0, "").final_response
          /\ \E failed \in BOOLEAN :
                IF failed
                THEN /\ query_type = "general"
                     /\ llm_analysis = EmptyAnalysis
                     /\ workflow_status = "degraded"
                     /\ error_count =
                           orchestrate_workflow(query, 0, "").error_count + 1
                     /\ oracle_calls = 1
                ELSE /\ \E analysis \in OracleAnalyses \cup {FallbackAnalysis} :
                           /\ query_type = analysis.query_type
                           /\ llm_analysis = analysis
                     /\ workflow_status = "running"
                     /\ error_count =
                           orchestrate_workflow(query, 0, "").error_count
                     /\ oracle_calls = 2
    /\ tool_plan = <<>>
    /\ executed_tools = <<>>
    /\ mcp_results = <<>>
    /\ needs_comprehensive_followup = FALSE
    /\ extracted_ids = EmptyExtracted
    /\ followup_tool_plan = <<>>
    /\ exec_phase = "idle"
    /\ exec_index = 0
    /\ attempt = 0
    /\ original_plan = <<>>
    /\ results_before = <<>>
    /\ attempt_log = <<>>
    /\ HelpersIdle
    /\ SessionsIdle
    /\ BadgesIdle
    /\ CheckpointsIdle

NextQuiet ==
    \/ ToolExecutionNode
    \/ ExecuteToolsReturns
    \/ ComprehensiveCheckNode
    \/ ComprehensiveFollowupNode
    \/ ResponseEnrichmentNode
    \/ OrchestratorFinishNode

\* the graph runs the next node as soon as the one before has returned
\* (unconditional edges, workflow.py lines 65-73), and no node waits
SpecQuiet == InitQuiet /\ [][NextQuiet]_vars /\ WF_vars(NextQuiet)

---------------------------------------------------------------------------
(* A turn from the tool execution node on, with a plan of one call: the   *)
(* Tool Service may fail the call and the calls of the follow-up, the     *)
(* query may have failed the initial validation, and the analysis may be  *)
(* the fallback of a failed oracle call. The sends to the sink are taken  *)
(* to succeed: send_text is awaited outside every handler of the nodes.   *)

\* the state that query_analysis returns (analyze_query lines 22-74)
InitTurn ==
    /\ pc = "execute"
    /\ conversation_history = <<>>
    /\ \E query \in Queries :
          /\ user_query = query
          /\ validation_result = _validate_initial_state(query)
          /\ final_response = orchestrate_workflow(query, 0, "").final_response
          /\ error_count = orchestrate_workflow(query, 0, "").error_count
    /\ \E analysis \in OracleAnalyses \cup {FallbackAnalysis} :
          /\ query_type = analysis.query_type
          /\ llm_analysis = analysis
    /\ workflow_status = "running"
    /\ oracle_calls = 2
    /\ tool_plan \in {<<entry>> : entry \in PlanEntries} \cup {FallbackPlan}
    /\ executed_tools = <<>>
    /\ mcp_results = <<>>
    /\ needs_comprehensive_followup = FALSE
    /\ extracted_ids = EmptyExtracted
    /\ followup_tool_plan = <<>>
    /\ exec_phase = "idle"
    /\ exec_index = 0
    /\ attempt = 0
    /\ original_plan = <<>>
    /\ results_before = <<>>
    /\ attempt_log = <<>>
    /\ HelpersIdle
    /\ SessionsIdle
    /\ BadgesIdle
    /\ CheckpointsIdle

NextTurn ==
    \/ ToolExecutionNode
    \/ RejectInvalidCall
    \/ AttemptReturns
    \/ AttemptRaises
    \/ ExecuteToolsReturns
    \/ ComprehensiveCheckNode
    \/ ComprehensiveFollowupNode
    \/ ResponseEnrichmentNode
    \/ OrchestratorFinishNode

\* the graph runs the next node as soon as the one before has returned
\* (workflow.py lines 65-73); every request to the Tool Service has a
\* timeout (mcp_client.py lines 154 and 177), so an attempt returns or raises
SpecTurn == InitTurn /\ [][NextTurn]_vars /\ WF_vars(NextTurn)

---------------------------------------------------------------------------
(* The end of a turn that started with a stored conversation: the enrich *)
(* and finish stages, the history drawn from lists of 0 to MaxHistory    *)
(* entries                                                               *)

StoredTexts ==
    <<"q1", "a1", "q2", "a2", "q3", "a3", "q4", "a4", "q5", "a5", "q6", "a6",
      "q7", "a7", "q8", "a8">>

\* entry number k of a stored conversation
StoredMessage(k) ==
    Message(IF k % 2 = 1 THEN "user" ELSE "assistant", StoredTexts[k])

\* process_query lines 269-274: the history of the checkpointed state
\* replaces the empty list of create_initial_state
StoredHistories ==
    {[k \in 1..n |-> StoredMessage(k)] : n \in 0..MaxHistory}

\* the state in which the response_enrichment node is entered, in a turn
\* with a conversational classification and no tool
InitHistory ==
    /\ pc = "enrich"
    /\ conversation_history \in StoredHistories
    /\ \E query \in Queries :
          /\ user_query = query
          /\ validation_result = _validate_initial_state(query)
          /\ final_response = orchestrate_workflow(query, 0, "").final_response
          /\ error_count = orchestrate_workflow(query, 0, "").error_count
    /\ workflow_status = "completed"
    /\ query_type = "conversational"
    /\ llm_analysis = FallbackAnalysis
    /\ tool_plan = <<>>
    /\ executed_tools = <<>>
    /\ mcp_results = <<>>
    /\ needs_comprehensive_followup = FALSE
    /\ extracted_ids = EmptyExtracted
    /\ followup_tool_plan = <<>>
    /\ exec_phase = "idle"
    /\ exec_index = 0
    /\ attempt = 0
    /\ original_plan = <<>>
    /\ results_before = <<>>
    /\ attempt_log = <<>>
    /\ oracle_calls = 2
    /\ HelpersIdle
    /\ SessionsIdle
    /\ BadgesIdle
    /\ CheckpointsIdle

NextHistory ==
    \/ ResponseEnrichmentNode
    \/ OrchestratorFinishNode

SpecHistory == InitHistory /\ [][NextHistory]_vars

---------------------------------------------------------------------------
(* Turns of two sessions, one after another, on one workflow object: the *)
(* oracle is down, so every turn is classified by the fallback analysis  *)
(* and runs no tool. The MemorySaver is taken to hold, for a thread id,  *)
(* the state that the last run of that thread ended with.                *)

\* variant with a fault: the stored history is not carried over
existing_history_dropped(saver, thread) == <<>>

\* process_query lines 253-277: the conversation_history of the state
\* that aget_state returns for the thread, or the empty list of
\* create_initial_state when the thread has no state or an empty history
existing_history(saver, thread) ==
    IF thread \in DOMAIN saver THEN saver[thread] ELSE <<>>

\* process_query lines 246-280 up to the first node: the thread id is
\* the session id, and the graph is started on create_initial_state with
\* the history of the thread
ProcessQueryOf(session) ==
    /\ pc = "idle"
    /\ thread_id' = session
    /\ conversation_history' = existing_history(memory, session)
    /\ user_query' = Query("show incidents", 14, FALSE, FALSE)
    /\ workflow_status' = "initialized"
    /\ error_count' = 0
    /\ query_type' = "general"
    /\ llm_analysis' = EmptyAnalysis
    /\ tool_plan' = <<>>
    /\ executed_tools' = <<>>
    /\ mcp_results' = <<>>
    /\ needs_comprehensive_followup' = FALSE
    /\ extracted_ids' = EmptyExtracted
    /\ followup_tool_plan' = <<>>
    /\ final_response' = ""
    /\ validation_result' = [valid |-> TRUE, errors |-> 0, warnings |-> 0]
    /\ exec_phase' = "idle"
    /\ exec_index' = 0
    /\ attempt' = 0
    /\ original_plan' = <<>>
    /\ results_before' = <<>>
    /\ attempt_log' = <<>>
    /\ oracle_calls' = 0
    /\ confidence_score' = 0
    /\ annotations' = <<>>
    /\ pc' = "start"
    /\ UNCHANGED <<memory, helperVars, sessionVars>>

\* process_query lines 280-283: ainvoke returns after the last node, and
\* the checkpointer holds the final state under the thread id
AinvokeReturns ==
    /\ pc = "done"
    /\ thread_id # "none"
    /\ memory' = [thread \in DOMAIN memory \cup {thread_id} |->
                     IF thread = thread_id THEN conversation_history
                     ELSE memory[thread]]
    /\ pc' = "idle"
    /\ UNCHANGED <<user_query, workflow_status, error_count, query_type,
                   llm_analysis, tool_plan, executed_tools, mcp_results,
                   followupVars, final_response, conversation_history,
                   validation_result, execVars, attempt_log, oracle_calls>>
    /\ UNCHANGED <<helperVars, sessionVars, badgeVars, thread_id>>

NextCheckpoint ==
    \/ \E session \in {"s1", "s2"} : ProcessQueryOf(session)
    \/ OrchestratorStartNode
    \/ analyze_query({FallbackAnalysis}, {FallbackPlan})
    \/ ToolExecutionNode
    \/ ComprehensiveCheckNode
    \/ ComprehensiveFollowupNode
    \/ ResponseEnrichmentNode
    \/ OrchestratorFinishNode
    \/ AinvokeReturns

SpecCheckpoint == Init /\ [][NextCheckpoint]_vars

---------------------------------------------------------------------------
(* The analyze stage and the execute stage of a turn that was started    *)
(* with a sink                                                           *)

\* the state in which the query_analysis node is entered when
\* process_query line 247 has stored the sink of the call
InitAnnounce ==
    /\ pc = "analyze"
    /\ conversation_history = <<>>
    /\ user_query = Query("show incidents", 14, FALSE, FALSE)
    /\ validation_result = [valid |-> TRUE, errors |-> 0, warnings |-> 0]
    /\ final_response = ""
    /\ error_count = 0
    /\ workflow_status = "running"
    /\ query_type = "general"
    /\ llm_analysis = EmptyAnalysis
    /\ tool_plan = <<>>
    /\ executed_tools = <<>>
    /\ mcp_results = <<>>
    /\ needs_comprehensive_followup = FALSE
    /\ extracted_ids = EmptyExtracted
    /\ followup_tool_plan = <<>>
    /\ exec_phase = "idle"
    /\ exec_index = 0
    /\ attempt = 0
    /\ original_plan = <<>>
    /\ results_before = <<>>
    /\ attempt_log = <<>>
    /\ oracle_calls = 0
    /\ HelpersIdle
    /\ turn_pc = [turn \in Turns |-> "idle"]
    /\ _current_websocket = Sink(1)
    /\ sent = <<>>
    /\ BadgesIdle
    /\ CheckpointsIdle

NextAnnounce ==
    \/ QueryAnalysisNode
    \/ ToolExecutionNode
    \/ RejectInvalidCall
    \/ AttemptReturns
    \/ AttemptRaises
    \/ ExecuteToolsReturns

SpecAnnounce == InitAnnounce /\ [][NextAnnounce]_vars

---------------------------------------------------------------------------
(* A turn whose analysis carries a confidence and plans no tool, from    *)
(* the analyze stage to the end                                          *)

\* the analyses in which the oracle filled the key "confidence_score",
\* with a confidence in percent
ScoredAnalyses ==
    LET Scored(analysis, confidence) ==
            [query_type |-> analysis.query_type,
             comprehensive |-> analysis.comprehensive,
             scope |-> analysis.scope,
             intent |-> analysis.intent,
             multi_entity |-> analysis.multi_entity,
             confidence_score |-> confidence]
    IN  {Scored(analysis, confidence) :
            analysis \in OracleAnalyses,
            confidence \in {0, 30, 50, 51, 80, 81, 100}}

\* the state in which the query_analysis node is entered
InitBadges ==
    /\ pc = "analyze"
    /\ conversation_history = <<>>
    /\ user_query = Query("show incidents", 14, FALSE, FALSE)
    /\ validation_result = [valid |-> TRUE, errors |-> 0, warnings |-> 0]
    /\ final_response = ""
    /\ error_count = 0
    /\ workflow_status = "running"
    /\ query_type = "general"
    /\ llm_analysis = EmptyAnalysis
    /\ tool_plan = <<>>
    /\ executed_tools = <<>>
    /\ mcp_results = <<>>
    /\ needs_comprehensive_followup = FALSE
    /\ extracted_ids = EmptyExtracted
    /\ followup_tool_plan = <<>>
    /\ exec_phase = "idle"
    /\ exec_index = 0
    /\ attempt = 0
    /\ original_plan = <<>>
    /\ results_before = <<>>
    /\ attempt_log = <<>>
    /\ oracle_calls = 0
    /\ HelpersIdle
    /\ SessionsIdle
    /\ BadgesIdle
    /\ CheckpointsIdle

NextBadges ==
    \/ analyze_query(ScoredAnalyses, {<<>>})
    \/ ToolExecutionNode
    \/ ExecuteToolsReturns
    \/ ComprehensiveCheckNode
    \/ ComprehensiveFollowupNode
    \/ ResponseEnrichmentNode
    \/ OrchestratorFinishNode

SpecBadges == InitBadges /\ [][NextBadges]_vars

---------------------------------------------------------------------------
(* The enrich stage when enrich_response answers with the smart          *)
(* fallback, over tool results whose items carry the fields of a label   *)

\* the records that a turn left: none, one or two of different tools,
\* each a search that the Tool Service served with a list of up to
\* MaxItems items, all alike, or a call that was recorded as a failure.
\* An item has the four fields that make a label
FallbackResults ==
    LET LabelledItem(title, message, name, id) ==
            [title |-> title, message |-> message, name |-> name, id |-> id]
        LabelledItems ==
            {LabelledItem("db outage", "disk full", "vector-0", 5),
             LabelledItem("", "disk full", "vector-0", 5),
             LabelledItem("", "", "vector-0", 5),
             LabelledItem("", "", "", 5),
             LabelledItem("", "", "", 0)}
        ItemLists ==
            {[k \in 1..n |-> item] :
                n \in 0..MaxItems, item \in LabelledItems}
        FallbackRecords ==
            {SearchResult("search_incidents",
                          Payload(<<>>, <<>>, items, <<>>)) :
                items \in ItemLists}
            \cup {SearchResult("search_resources",
                               Payload(items, <<>>, <<>>, <<>>)) :
                     items \in ItemLists}
            \cup {McpResult("get_incidents", StructuredFailure,
                            "ToolExecutionAgent"),
                  McpResult("search_tickets",
                            TransportFailure("search_tickets", "timed out"),
                            "ToolExecutionAgent")}
    IN  {<<>>} \cup {<<first>> : first \in FallbackRecords}
        \cup {pair \in {<<first, second>> : first \in FallbackRecords,
                                             second \in FallbackRecords} :
                 pair[1].tool_name # pair[2].tool_name}

\* the state in which the response_enrichment node is entered, after a
\* turn whose calls left the records of results
InitFallback ==
    /\ pc = "enrich"
    /\ conversation_history = <<>>
    /\ user_query = Query("show incidents", 14, FALSE, FALSE)
    /\ validation_result = [valid |-> TRUE, errors |-> 0, warnings |-> 0]
    /\ final_response = ""
    /\ error_count = 0
    /\ workflow_status = "completed"
    /\ query_type = "exploration"
    /\ llm_analysis = Analysis("exploration", FALSE, "multiple", "list", FALSE)
    /\ \E results \in FallbackResults :
          /\ mcp_results = results
          /\ executed_tools = ExecutedAfter(results)
          /\ tool_plan = [k \in 1..Len(results) |->
                             Call(results[k].tool_name,
                                  IF results[k].tool_name
                                        \in {"search_incidents",
                                             "search_resources",
                                             "search_tickets"}
                                  THEN QueryParam("payment") ELSE NoParams)]
    /\ needs_comprehensive_followup = FALSE
    /\ extracted_ids = EmptyExtracted
    /\ followup_tool_plan = <<>>
    /\ exec_phase = "idle"
    /\ exec_index = 0
    /\ attempt = 0
    /\ original_plan = <<>>
    /\ results_before = <<>>
    /\ attempt_log = <<>>
    /\ oracle_calls = 2
    /\ HelpersIdle
    /\ SessionsIdle
    /\ BadgesIdle
    /\ CheckpointsIdle

NextFallback ==
    \/ EnrichResponseFails
    \/ OrchestratorFinishNode

SpecFallback == InitFallback /\ [][NextFallback]_vars

---------------------------------------------------------------------------
(* The state helpers of src/state.py on their own: a caller holds a      *)
(* state value built by create_initial_state and passes it to the        *)
(* helpers                                                               *)

\* dict[key] = value
SetItem(map, key, value) ==
    [k \in (DOMAIN map) \cup {key} |-> IF k = key THEN value ELSE map[k]]

\* add_mcp_result on a state value: state.copy() is a shallow copy, so
\* the lists of the copy are the lists of the state passed, and append
\* changes them in place. returned is the dict returned and passed is
\* the dict passed as the call leaves it. (Lines 172-173 and 178-179
\* make a new list only for a key that is missing or None, which
\* create_initial_state rules out.)
add_mcp_result_call(state, tool_name, result, agent_name) ==
    LET results ==
            add_mcp_result(state.mcp_results, tool_name, result, agent_name)
        executed == add_executed_tool(state.executed_tools, tool_name)
    IN  [returned |-> [state EXCEPT !.mcp_results = results,
                                    !.executed_tools = executed],
         passed |-> [state EXCEPT !.mcp_results = results,
                                  !.executed_tools = executed]]

\* update_state_context: the context_data dict of the shallow copy is
\* the dict of the state passed, and the item assignment changes it in
\* place
update_state_context(state, key, value) ==
    LET context == SetItem(state.context_data, key, value)
    IN  [returned |-> [state EXCEPT !.context_data = context],
         passed |-> [state EXCEPT !.context_data = context]]

CallAddMcpResult ==
    /\ Len(passed_state.mcp_results) < MaxHelperCalls
    /\ \E tool_name \in {"search_resources", "search_incidents",
                          "get_incidents"},
          result \in {EmptyPayload, StructuredFailure} :
          LET out == add_mcp_result_call(passed_state, tool_name, result,
                                         "ToolExecutionAgent")
          IN  /\ passed_state' = out.passed
              /\ returned_state' = <<out.returned>>
    /\ UNCHANGED <<turnVars, sessionVars, badgeVars, checkpointVars>>

CallUpdateStateContext ==
    /\ \E key \in {"orchestrator_validation", "query_analysis"},
          value \in {"first value", "second value"} :
          LET out == update_state_context(passed_state, key, value)
          IN  /\ passed_state' = out.passed
              /\ returned_state' = <<out.returned>>
    /\ UNCHANGED <<turnVars, sessionVars, badgeVars, checkpointVars>>

NextHelpers ==
    \/ CallAddMcpResult
    \/ CallUpdateStateContext

SpecHelpers == Init /\ [][NextHelpers]_vars

---------------------------------------------------------------------------
(* Concurrent turns on the one workflow object: each process_query call  *)
(* is a coroutine that yields at the awaits of its nodes, so the nodes   *)
(* of two turns interleave. Of a turn only its position and the progress *)
(* events it sends are kept.                                             *)

\* a progress event: the turn it belongs to, its kind and the sink that
\* send_text was called on
Event(turn, kind, sink) == [turn |-> turn, kind |-> kind, sink |-> sink]

\* the node after a node that sends nothing
NodeAfter(node) ==
    CASE node = "start" -> "analyze"
      [] node = "analyze" -> "execute"
      [] node = "check" -> "followup"
      [] node = "finish" -> "done"

\* process_query line 247: the sink of the call is stored on the
\* workflow object, then the graph is started
EnterTurn(turn) ==
    /\ turn_pc[turn] = "idle"
    /\ _current_websocket' = Sink(turn)
    /\ turn_pc' = [turn_pc EXCEPT ![turn] = "start"]
    /\ UNCHANGED <<sent, turnVars, helperVars,
                   badgeVars, checkpointVars>>

\* orchestrator_start, query_analysis, comprehensive_check and
\* orchestrator_finish send no event
QuietNode(turn) ==
    /\ turn_pc[turn] \in {"start", "analyze", "check", "finish"}
    /\ turn_pc' = [turn_pc EXCEPT ![turn] = NodeAfter(turn_pc[turn])]
    /\ UNCHANGED <<_current_websocket, sent, turnVars, helperVars,
                   badgeVars, checkpointVars>>

\* _tool_execution_node lines 113-123: the tool-call notification goes
\* to self._current_websocket when the plan is not empty
ToolExecutionNodeOf(turn) ==
    /\ turn_pc[turn] = "execute"
    /\ \E plan_is_empty \in BOOLEAN :
          IF _current_websocket # NoSink /\ ~plan_is_empty
          THEN sent' = Append(sent,
                  Event(turn, "on_tool_call", _current_websocket))
          ELSE UNCHANGED sent
    /\ turn_pc' = [turn_pc EXCEPT ![turn] = "check"]
    /\ UNCHANGED <<_current_websocket, turnVars, helperVars,
                   badgeVars, checkpointVars>>

\* _comprehensive_followup_node lines 160-170: the follow-up
\* notification goes to self._current_websocket when there is a
\* follow-up plan
ComprehensiveFollowupNodeOf(turn) ==
    /\ turn_pc[turn] = "followup"
    /\ \E has_followup_plan \in BOOLEAN :
          IF _current_websocket # NoSink /\ has_followup_plan
          THEN sent' = Append(sent,
                  Event(turn, "comprehensive_followup", _current_websocket))
          ELSE UNCHANGED sent
    /\ turn_pc' = [turn_pc EXCEPT ![turn] = "enrich"]
    /\ UNCHANGED <<_current_websocket, turnVars, helperVars,
                   badgeVars, checkpointVars>>

\* _response_enrichment_node lines 191-199: the node reads
\* self._current_websocket once and the narrative is streamed to that
\* sink one character at a time (llm_client.py lines 779-800); the oracle
\* may fail before the first token or between two tokens
ResponseEnrichmentNodeOf(turn) ==
    /\ turn_pc[turn] = "enrich"
    /\ \E tokens \in 0..MaxTokens :
          IF _current_websocket # NoSink
          THEN sent' = sent \o
                  [i \in 1..tokens |->
                      Event(turn, "on_chat_model_stream", _current_websocket)]
          ELSE UNCHANGED sent
    /\ turn_pc' = [turn_pc EXCEPT ![turn] = "finish"]
    /\ UNCHANGED <<_current_websocket, turnVars, helperVars,
                   badgeVars, checkpointVars>>

\* variant with a fault: the end of the stream is announced before the
\* response with its metadata is sent
CompletionKindEndFirst(position) ==
    IF position = "done" THEN "on_chat_model_end" ELSE "on_enhanced_response"

\* invoke_our_graph lines 127-141: the response with the forward links,
\* the recommendations and the execution summary, then the end of the
\* stream
CompletionKind(position) ==
    IF position = "done" THEN "on_enhanced_response" ELSE "on_chat_model_end"

\* invoke_our_graph lines 124-141: after process_query has returned, two
\* messages are sent on the websocket of the call, one at each await
SendCompletion(turn) ==
    /\ turn_pc[turn] \in {"done", "responded"}
    /\ sent' = Append(sent, Event(turn, CompletionKind(turn_pc[turn]),
                                  Sink(turn)))
    /\ turn_pc' = [turn_pc EXCEPT ![turn] =
                      IF turn_pc[turn] = "done" THEN "responded" ELSE "ended"]
    /\ UNCHANGED <<_current_websocket, turnVars, helperVars,
                   badgeVars, checkpointVars>>

NextSessions ==
    \E turn \in Turns :
        \/ EnterTurn(turn)
        \/ QuietNode(turn)
        \/ ToolExecutionNodeOf(turn)
        \/ ComprehensiveFollowupNodeOf(turn)
        \/ ResponseEnrichmentNodeOf(turn)
        \/ SendCompletion(turn)

SpecSessions == Init /\ [][NextSessions]_vars

\* _format_response line 301
ReportedSuccess == workflow_status = "completed"

---------------------------------------------------------------------------
(* Properties of the execute stage *)

\* the parameter that the requirement class of a tool asks for
RequiredParameter(tool_name) ==
    CASE tool_name \in resource_id_tools -> "resource_id"
      [] tool_name \in incident_id_tools -> "incident_id"
      [] tool_name \in ticket_id_tools -> "ticket_id"
      [] tool_name \in query_tools -> "query"
      [] OTHER -> "none"

\* the required parameter of the call is missing, empty or "undefined"
LacksRequiredParameter(call) ==
    /\ RequiredParameter(call.name) # "none"
    /\ Get(call.parameters, RequiredParameter(call.name))
          \in {NoneV, StrV(""), StrV("undefined")}

\* the record that the running call of execute_tools added for entry k
StageResult(k) == mcp_results[Len(results_before) + k]

\* the calls of client.execute_tool made for entry k of the running stage
AttemptsFor(k) ==
    {i \in 1..Len(attempt_log) :
        attempt_log[i].phase = exec_phase /\ attempt_log[i].index = k}

LastAttemptFor(k) ==
    attempt_log[CHOOSE i \in AttemptsFor(k) : \A j \in AttemptsFor(k) : j <= i]

\* the for loop of execute_tools has passed the last entry of the plan
LoopFinished == exec_phase # "idle" /\ exec_index > Len(tool_plan)

\* execute_tools has returned to the tool_execution node, or its loop is
\* over in the follow-up node
ExecuteStageEnded == pc = "check" \/ (exec_phase = "followup" /\ LoopFinished)

\* the tool-result list is the list at the start of the stage followed
\* by one record per plan entry, in plan order
AppendedInPlanOrder ==
    /\ Len(mcp_results) = Len(results_before) + Len(tool_plan)
    /\ IsPrefix(results_before, mcp_results)
    /\ \A k \in 1..Len(tool_plan) :
          /\ StageResult(k).tool_name = tool_plan[k].name
          /\ StageResult(k).success \in BOOLEAN

\* C1 as claimed: after the execute stage the tool-result list is the list
\* before the stage followed by exactly K records, one per plan entry and
\* in plan order, for every session state and every plan of length K
C1_AsClaimed == ExecuteStageEnded => AppendedInPlanOrder

\* C1: after the execute stage of a turn whose query type is not
\* conversational the tool-result list is the list before the stage
\* followed by exactly K records, the i-th carrying the name of the i-th
\* plan entry and a boolean success flag; for a conversational query type
\* the stage appends nothing, whatever the plan
C1_AppendsPlanUnlessConversational ==
    ExecuteStageEnded =>
        IF query_type = "conversational"
        THEN mcp_results = results_before
        ELSE AppendedInPlanOrder

\* a stage has appended a failure and then a success for a two-entry plan
C1_Witness ==
    /\ pc = "check"
    /\ query_type # "conversational"
    /\ Len(tool_plan) = 2
    /\ Len(mcp_results) = 2
    /\ ~mcp_results[1].success
    /\ mcp_results[2].success

\* C2: a call whose tool is in a parameter-requirement class and whose
\* required parameter is missing, empty or "undefined" causes no call of
\* the Tool Service, and its recorded result has success = false
C2_InvalidCallNeverSent ==
    exec_phase # "idle" =>
        \A k \in 1..Len(tool_plan) :
            LacksRequiredParameter(tool_plan[k]) =>
                /\ AttemptsFor(k) = {}
                /\ k < exec_index =>
                      /\ ~StageResult(k).success
                      /\ ~StageResult(k).result.success

\* a call with resource_id "undefined" has been rejected and recorded
C2_Witness ==
    /\ exec_phase = "primary"
    /\ exec_index = 2
    /\ tool_plan[1].name = "get_resource_version"
    /\ Get(tool_plan[1].parameters, "resource_id") = StrV("undefined")
    /\ ~mcp_results[1].success
    /\ attempt_log = <<>>

\* C3 as claimed: the failure recorded for a call that fails
\* pre-validation names the offending parameter
C3_AsClaimed ==
    exec_phase # "idle" =>
        \A k \in 1..(exec_index - 1) :
            LacksRequiredParameter(tool_plan[k]) =>
                Contains(StageResult(k).result.error,
                         Tok(RequiredParameter(tool_plan[k].name)))

\* C3: the failure recorded for a call that fails pre-validation names
\* the tool of the call, in the record and in its error text, and has
\* success = false
C3_FailureNamesTool ==
    exec_phase # "idle" =>
        \A k \in 1..(exec_index - 1) :
            LacksRequiredParameter(tool_plan[k]) =>
                /\ StageResult(k).tool_name = tool_plan[k].name
                /\ ~StageResult(k).success
                /\ Contains(StageResult(k).result.error,
                            Tok(tool_plan[k].name))

\* a get_incident_by_id call without incident_id has been recorded
C3_Witness ==
    /\ exec_phase = "primary"
    /\ exec_index = 2
    /\ tool_plan[1] = Call("get_incident_by_id", NoParams)
    /\ mcp_results[1].result.error = ValidationError("get_incident_by_id")

\* every call of client.execute_tool made for entry k has raised
AllAttemptsRaised(k) ==
    /\ AttemptsFor(k) # {}
    /\ \A i \in AttemptsFor(k) : attempt_log[i].raised

\* the running stage has added a record for entry k
Recorded(k) == Len(results_before) + k <= Len(mcp_results)

\* C4: a validated call whose every attempt raises a transport failure is
\* attempted exactly max_retries times; its result is recorded only then,
\* once, as a failure that carries the error of the last attempt
C4_RetriedThenRecorded ==
    exec_phase # "idle" =>
        \A k \in 1..Len(tool_plan) :
            AllAttemptsRaised(k) =>
                /\ Cardinality(AttemptsFor(k)) <= 2
                /\ (k < exec_index) <=> (Cardinality(AttemptsFor(k)) = 2)
                /\ k < exec_index =>
                      /\ Len(mcp_results) =
                            Len(results_before) + exec_index - 1
                      /\ ~StageResult(k).success
                      /\ StageResult(k).result.error =
                            TransportError(tool_plan[k].name,
                                           LastAttemptFor(k).cause)

\* a call has raised twice, for two different reasons, and is recorded
\* with the second one
C4_Witness ==
    /\ exec_phase = "primary"
    /\ exec_index = 2
    /\ Len(attempt_log) = 2
    /\ attempt_log[1].raised /\ attempt_log[1].cause = "timed out"
    /\ attempt_log[2].raised /\ attempt_log[2].cause = "Network error"
    /\ Len(mcp_results) = 1
    /\ Contains(mcp_results[1].result.error, <<"Network error">>)

\* C5: in the execute stage every plan entry after a failed one (failed
\* validation, or a transport failure on every attempt) is still invoked
\* and gets its own result record
C5_FailureDoesNotStopLoop ==
    LoopFinished =>
        \A k \in 1..Len(tool_plan) :
            (Recorded(k) /\ ~StageResult(k).success) =>
                \A j \in (k + 1)..Len(tool_plan) :
                    /\ Recorded(j)
                    /\ StageResult(j).tool_name = tool_plan[j].name
                    /\ _validate_parameters(tool_plan[j].name,
                                            tool_plan[j].parameters)
                          => AttemptsFor(j) # {}

\* the first entry failed on every attempt and the second one was
\* called and succeeded
C5_Witness ==
    /\ exec_phase = "primary"
    /\ LoopFinished
    /\ Len(tool_plan) = 2
    /\ Len(mcp_results) = 2
    /\ AllAttemptsRaised(1)
    /\ ~mcp_results[1].success
    /\ AttemptsFor(2) # {}
    /\ mcp_results[2].success

---------------------------------------------------------------------------
(* Properties of the turn *)

\* the start node has run and the query did not pass validation
ValidationFailed == pc \notin {"idle", "start"} /\ ~validation_result.valid

\* C6 as claimed: once the initial validation has failed, no oracle
\* operation and no Tool Service call is made in the turn
C6_AsClaimed ==
    ValidationFailed => (oracle_calls = 0 /\ attempt_log = <<>>)

\* C7 as claimed: once the initial validation has failed, workflow_status
\* is failed from the end of the start stage to the end of the turn, and
\* the turn is not reported as a success
C7_AsClaimed ==
    ValidationFailed => (workflow_status = "failed" /\ ~ReportedSuccess)

\* C8 as claimed: a query shorter than the minimum or longer than the
\* maximum fails the initial validation
C8_AsClaimed ==
    pc \notin {"idle", "start"} =>
        ((\/ user_query.len < 3
          \/ user_query.len > 1000) => ~validation_result.valid)

\* C8: a query fails the initial validation exactly when it is shorter
\* than 3 characters; a query longer than 1000 characters passes it, with
\* one warning
C8_OnlyShortQueryRejected ==
    pc \notin {"idle", "start"} =>
        /\ ~validation_result.valid <=> user_query.len < 3
        /\ user_query.len > 1000 =>
              (validation_result.valid /\ validation_result.warnings = 1)
        /\ user_query.len <= 1000 => validation_result.warnings = 0

\* the start node has validated a query of 1001 characters
C8_Witness ==
    /\ pc = "analyze"
    /\ user_query.len = 1001
    /\ validation_result.valid
    /\ validation_result.warnings = 1

\* C9 as claimed: before the finish stage has run, workflow_status is not
\* completed
C9_AsClaimed == pc # "done" => workflow_status # "completed"

\* C10 as claimed: every step leaves the tool-result list as it was or
\* extends it at its end
C10_AsClaimed == [][IsPrefix(mcp_results, mcp_results')]_vars

---------------------------------------------------------------------------
(* Properties of the session state *)

\* the position in the tool-result list of the first record of a tool
FirstResultOf(tool_name) ==
    CHOOSE i \in 1..Len(mcp_results) :
        /\ mcp_results[i].tool_name = tool_name
        /\ \A j \in 1..(i - 1) : mcp_results[j].tool_name # tool_name

\* C11: in every state of a turn the executed-tool-names list has no
\* duplicates, holds exactly the tool names that occur in the tool-result
\* list, and lists them in the order of their first occurrence there
C11_ExecutedToolsAreFirstOccurrences ==
    /\ \A i, j \in 1..Len(executed_tools) :
          i # j => executed_tools[i] # executed_tools[j]
    /\ {executed_tools[i] : i \in 1..Len(executed_tools)}
          = {mcp_results[i].tool_name : i \in 1..Len(mcp_results)}
    /\ \A i, j \in 1..Len(executed_tools) :
          i < j => FirstResultOf(executed_tools[i])
                      < FirstResultOf(executed_tools[j])

\* a tool was called more than once in a turn that called several tools
C11_Witness ==
    /\ Len(executed_tools) >= 2
    /\ Len(mcp_results) > Len(executed_tools)

---------------------------------------------------------------------------
(* Properties of the expansion: check-expansion and expand *)

\* the payloads of the successful records of the tool-result list
SuccessfulPayloads ==
    {mcp_results[i].result :
        i \in {j \in 1..Len(mcp_results) : mcp_results[j].success}}

\* the ids that the first items of the successful results carry
FirstResourceIds ==
    {data.resources[1].id : data \in {d \in SuccessfulPayloads :
                                          d.resources # <<>>}}

FirstIncidents ==
    {IncidentsOf(data)[1] : data \in {d \in SuccessfulPayloads :
                                         IncidentsOf(d) # <<>>}}

FirstTickets ==
    {data.tickets[1] : data \in {d \in SuccessfulPayloads :
                                    d.tickets # <<>>}}

LinkedResourceIdsInResults ==
    UNION {{incident.resource_mapping[k] :
               k \in 1..Len(incident.resource_mapping)} :
              incident \in FirstIncidents}
    \cup {ticket.resourceId : ticket \in FirstTickets}

\* every identifier of the extracted-identifier map is carried by a
\* successful record of the tool-result list
ExtractedFromSuccessfulResults ==
    LET ex == extracted_ids
    IN  /\ "resource_id" \in ex.keys => ex.resource_id \in FirstResourceIds
        /\ "incident_id" \in ex.keys =>
              ex.incident_id \in {incident.id : incident \in FirstIncidents}
        /\ "ticket_id" \in ex.keys =>
              ex.ticket_id \in {ticket.id : ticket \in FirstTickets}
        /\ \A k \in 1..Len(ex.linked_resource_ids) :
              ex.linked_resource_ids[k] \in LinkedResourceIdsInResults
        /\ \A k \in 1..Len(ex.linked_incident_ids) :
              ex.linked_incident_ids[k]
                 \in {ticket.incidentId : ticket \in FirstTickets}

\* C12: whenever the pending-follow-up flag is set or a non-empty
\* follow-up plan is recorded, the extracted-identifier map is not empty
\* and each of its identifiers is carried by a successful record that is
\* in the tool-result list
C12_FollowupOnlyWithExtractedIds ==
    (needs_comprehensive_followup \/ followup_tool_plan # <<>>) =>
        /\ extracted_ids.keys # {}
        /\ ExtractedFromSuccessfulResults

\* the follow-up runs on a resource id and on linked resource ids
C12_Witness ==
    /\ needs_comprehensive_followup
    /\ followup_tool_plan # <<>>
    /\ "resource_id" \in extracted_ids.keys
    /\ extracted_ids.linked_resource_ids # <<>>

\* the expand stage has started to execute a follow-up plan in this turn
FollowupExecuted ==
    \/ exec_phase = "followup"
    \/ \E i \in 1..Len(attempt_log) : attempt_log[i].phase = "followup"

\* the tool-result list as check-expansion found it: the follow-up is
\* the only stage after it that adds records, and it adds them after
\* the records of results_before
ResultsAtCheck == IF FollowupExecuted THEN results_before ELSE mcp_results

\* a comprehensive-class tool was among the executed tools when
\* check-expansion ran
ComprehensiveToolAtCheck ==
    /\ pc \in {"followup", "enrich", "finish", "done"}
    /\ \E i \in 1..Len(ResultsAtCheck) :
          ResultsAtCheck[i].tool_name \in
             {"get_resource_by_id", "get_resource_version",
              "get_resource_metadata", "get_resource_tickets",
              "get_changelog_by_resource", "get_notifications_by_resource",
              "get_incident_by_id", "get_incident_changelogs"}

AtMostFive(ids) == IF Len(ids) > 5 THEN 5 ELSE Len(ids)

\* the calls of the follow-up plan that come after the per-resource and
\* per-incident detail calls of resource_id and incident_id
LinkedCallsFrom ==
    (IF "resource_id" \in extracted_ids.keys THEN 6 ELSE 0)
    + (IF "incident_id" \in extracted_ids.keys THEN 2 ELSE 0)

\* C14: the follow-up plan has one identity-detail call for each of the
\* first 5 ids of linked_resource_ids and for each of the first 5 ids of
\* linked_incident_ids, in list order, and no other call derived from
\* these lists, however long the lists are
C14_LinkedCallsCappedAtFive ==
    exec_phase = "followup" =>
        LET rids == extracted_ids.linked_resource_ids
            iids == extracted_ids.linked_incident_ids
            nr == AtMostFive(rids)
            ni == AtMostFive(iids)
        IN  /\ Len(tool_plan) = LinkedCallsFrom + nr + ni
            /\ \A k \in 1..nr :
                  tool_plan[LinkedCallsFrom + k] =
                     [name |-> "get_resource_by_id",
                      parameters |-> [p \in {"resource_id"} |-> IntV(rids[k])]]
            /\ \A k \in 1..ni :
                  tool_plan[LinkedCallsFrom + nr + k] =
                     [name |-> "get_incident_by_id",
                      parameters |-> [p \in {"incident_id"} |-> IntV(iids[k])]]

\* a follow-up plan made from more than 5 linked ids of each kind
C14_Witness ==
    /\ exec_phase = "followup"
    /\ Len(extracted_ids.linked_resource_ids) > 5
    /\ Len(extracted_ids.linked_incident_ids) > 5

\* record number i is a successful find-incidents-by-text result whose
\* first item carries a non-empty list of linked resource ids
CarriesLinkedResources(i) ==
    /\ mcp_results[i].success
    /\ mcp_results[i].tool_name = "search_incidents"
    /\ IncidentsOf(mcp_results[i].result) # <<>>
    /\ IncidentsOf(mcp_results[i].result)[1].resource_mapping # <<>>

LinkedResourcesOf(i) == IncidentsOf(mcp_results[i].result)[1].resource_mapping

NoTicketResults ==
    \A i \in 1..Len(mcp_results) :
        /\ mcp_results[i].tool_name # "search_tickets"
        /\ mcp_results[i].result.tickets = <<>>

\* check-expansion has stored the output of the Entity Extractor
ExtractorOutputStored ==
    pc = "followup" /\ exec_phase = "idle" /\ needs_comprehensive_followup

InitialPlan == IF original_plan # <<>> THEN original_plan ELSE tool_plan

\* a turn with expansion signals whose initial plan is one
\* find-resources-by-text call, which succeeded with a first item
FoundOneResource ==
    /\ should_expand(user_query, llm_analysis)
    /\ Len(InitialPlan) = 1
    /\ InitialPlan[1].name = "search_resources"
    /\ Len(mcp_results) >= 1
    /\ mcp_results[1].tool_name = "search_resources"
    /\ mcp_results[1].success
    /\ mcp_results[1].result.resources # <<>>

FoundResourceId == mcp_results[1].result.resources[1].id

\* identity, version, metadata, related tickets, change history,
\* notifications
DetailTools ==
    <<"get_resource_by_id", "get_resource_version", "get_resource_metadata",
      "get_resource_tickets", "get_changelog_by_resource",
      "get_notifications_by_resource">>

\* the entries of the follow-up plan for which the Tool Service was
\* called
FollowupEntriesCalled ==
    {attempt_log[i].index :
        i \in {j \in 1..Len(attempt_log) : attempt_log[j].phase = "followup"}}

\* C16: in a comprehensive turn whose initial plan is one
\* find-resources-by-text call that succeeds with a first item of id R,
\* check-expansion sets the pending flag and records resource_id = R, and
\* the expand stage executes exactly six follow-up calls, each with
\* resource_id R, in the order identity, version, metadata, related
\* tickets, change history, notifications
C16_SixDetailCallsForFoundResource ==
    FoundOneResource =>
        /\ (pc = "followup" /\ exec_phase = "idle") =>
              /\ needs_comprehensive_followup
              /\ extracted_ids.keys = {"resource_id", "resource_name"}
              /\ extracted_ids.resource_id = FoundResourceId
        /\ exec_phase = "followup" =>
              /\ Len(tool_plan) = 6
              /\ \A k \in 1..6 :
                    tool_plan[k] =
                       [name |-> DetailTools[k],
                        parameters |-> [p \in {"resource_id"} |->
                                           IntV(FoundResourceId)]]
        /\ pc \in {"enrich", "finish", "done"} =>
              /\ Len(mcp_results) = 1 + 6
              /\ \A k \in 1..6 : mcp_results[1 + k].tool_name = DetailTools[k]
              /\ FollowupEntriesCalled = 1..6
              /\ \A i \in 1..Len(attempt_log) :
                    attempt_log[i].phase = "followup" =>
                       attempt_log[i].tool = DetailTools[attempt_log[i].index]
              /\ \A i, j \in 1..Len(attempt_log) :
                    (/\ i < j
                     /\ attempt_log[i].phase = "followup"
                     /\ attempt_log[j].phase = "followup") =>
                       attempt_log[i].index <= attempt_log[j].index

\* the six detail calls have been executed after the search found a
\* resource
C16_Witness ==
    /\ FoundOneResource
    /\ pc = "done"
    /\ Len(mcp_results) = 7
    /\ mcp_results[7].tool_name = "get_notifications_by_resource"

---------------------------------------------------------------------------
(* Properties of the whole turn *)

\* C17: a turn whose tool plan is empty makes no Tool Service execute
\* call, appends no result record, leaves the pending-follow-up flag
\* false, and ends with workflow status completed
C17_EmptyPlanTurnCompletes ==
    /\ [](/\ attempt_log = <<>>
          /\ mcp_results = <<>>
          /\ executed_tools = <<>>
          /\ ~needs_comprehensive_followup
          /\ tool_plan = <<>>)
    /\ (pc = "execute") ~> (pc = "done" /\ workflow_status = "completed")
    /\ [](pc = "done" => workflow_status = "completed")

\* a turn with a conversational classification and an empty plan has
\* ended
C17_Witness ==
    /\ pc = "done"
    /\ query_type = "conversational"
    /\ tool_plan = <<>>
    /\ mcp_results = <<>>
    /\ workflow_status = "completed"

\* C18: the finish stage leaves a conversation history of at most 10
\* entries whatever its length at turn start; the last two entries are
\* the turn's user query and final answer in that order, and the
\* entries before them are the most recent entries of the restored
\* history in their original order
C18_HistoryKeepsLastTen ==
    [][pc = "finish" =>
          LET old == conversation_history
              new == conversation_history'
              kept == IF Len(old) > 8 THEN 8 ELSE Len(old)
          IN  /\ Len(new) <= 10
              /\ Len(new) = kept + 2
              /\ new[kept + 1] =
                    [role |-> "user", content |-> user_query.text]
              /\ new[kept + 2] =
                    [role |-> "assistant", content |-> final_response]
              /\ \A k \in 1..kept : new[k] = old[Len(old) - kept + k]]_vars

\* a turn that started with 11 stored entries has ended: the three
\* oldest are gone
C18_Witness ==
    /\ pc = "done"
    /\ Len(conversation_history) = 10
    /\ conversation_history[1] = StoredMessage(4)
    /\ conversation_history[8] = StoredMessage(11)
    /\ conversation_history[9].role = "user"
    /\ conversation_history[10].role = "assistant"

---------------------------------------------------------------------------
(* Properties of the state helpers *)

\* C19 as claimed: add_mcp_result and update_state_context leave the
\* state value passed to them unchanged: its tool-result list, its
\* executed-tool-names list and its context map have the same contents
\* after the call as before it
C19_AsClaimed ==
    [][/\ passed_state'.mcp_results = passed_state.mcp_results
       /\ passed_state'.executed_tools = passed_state.executed_tools
       /\ passed_state'.context_data = passed_state.context_data]_vars

---------------------------------------------------------------------------
(* Properties of concurrent turns *)

\* C20 as claimed: under every interleaving of two concurrent turns on
\* the same workflow instance, each progress event of a turn (tool-call
\* notification, follow-up notification, narrative token) is sent to the
\* sink passed to that turn's process_query call, never to the other
\* turn's sink
C20_AsClaimed ==
    \A i \in 1..Len(sent) : sent[i].sink = Sink(sent[i].turn)

---------------------------------------------------------------------------
(* Properties of the failure handling *)

\* the analyze stage has returned and the plan is the one that
\* _fallback_tool_planning gives: the planning call of the oracle failed
LeftAnalyzeAfterPlanningFailure ==
    /\ pc = "execute"
    /\ exec_phase = "idle"
    /\ tool_plan = FallbackPlan

\* C21 as claimed: when an oracle call fails during the analyze stage,
\* the state leaving analyze has its error count incremented by one and
\* workflow status degraded, and the pipeline proceeds to the execute
\* stage
C21_AsClaimed ==
    LeftAnalyzeAfterPlanningFailure =>
        /\ workflow_status = "degraded"
        /\ error_count = validation_result.errors + 1

\* the enrich stage has run and the answer is not the oracle's narrative:
\* the answer-generation call failed
LeftEnrichAfterGenerationFailure ==
    /\ pc \in {"finish", "done"}
    /\ final_response # "narrative"

\* C22 as claimed: when the answer-generation call of the oracle fails
\* during the enrich stage, the final answer is the deterministic
\* summary built from the accumulated tool results, not a text that
\* ignores them
C22_AsClaimed ==
    LeftEnrichAfterGenerationFailure =>
        final_response = _create_smart_fallback_response(mcp_results)

---------------------------------------------------------------------------
(* Properties of the termination of a turn                               *)

\* a call of the turn that ended as a recorded failure
FailureRecorded ==
    \E i \in 1..Len(mcp_results) : ~mcp_results[i].success

\* the turn went through the finish node: the status is set and the pair
\* of the turn is at the end of the history
TurnFinished ==
    /\ pc = "done"
    /\ workflow_status = FinishStatus
    /\ Len(conversation_history) >= 2
    /\ Last(conversation_history) = Message("assistant", final_response)

---------------------------------------------------------------------------
(* Properties of the order of the events of a turn                       *)

\* the events of a turn, in the order they were sent
EventsOf(turn) ==
    LET OfTurn(event) == event.turn = turn
    IN  SelectSeq(sent, OfTurn)

\* the place of a kind of event in the order of a turn
EventRank(kind) ==
    CASE kind = "on_tool_call" -> 1
      [] kind = "comprehensive_followup" -> 2
      [] kind = "on_chat_model_stream" -> 3
      [] kind = "on_enhanced_response" -> 4
      [] kind = "on_chat_model_end" -> 5

NumberOf(events, kind) ==
    Cardinality({i \in 1..Len(events) : events[i].kind = kind})

\* no event of the turn is sent after an event of a later kind
InRankOrder(events) ==
    \A i, j \in 1..Len(events) :
        i < j => EventRank(events[i].kind) <= EventRank(events[j].kind)

TurnEnded(turn) == turn_pc[turn] = "ended"

---------------------------------------------------------------------------
(* Properties of the parameters sent to the Tool Service                 *)

\* the parameters that the plan entry of an attempt supplies; the plan
\* of the invoker is not replaced
SuppliedTo(entry) == tool_plan[entry.index].parameters

\* the parameters that the Tool Service declares as integers
IntegerTyped ==
    {"resource_id", "incident_id", "ticket_id", "changelog_id",
     "notification_id", "page", "page_size", "limit"}

IsDigitString(value) == value.kind = "str" /\ isdigit(value.s)

IsNumber(value) == value.kind \in {"int", "float"}

\* C25 as stated: a string of digits supplied for an integer-typed
\* parameter is sent as its number, and every other value is sent as it
\* was supplied
C25_AsClaimed ==
    \A i \in 1..Len(attempt_log) :
        LET supplied == SuppliedTo(attempt_log[i])
            carried == attempt_log[i].parameters
        IN     /\ DOMAIN carried = DOMAIN supplied
               /\ \A key \in DOMAIN supplied :
                     carried[key] =
                        IF key \in IntegerTyped
                              /\ IsDigitString(supplied[key])
                        THEN IntV(DigitsValue(StringChars(supplied[key].s)))
                        ELSE supplied[key]

\* C25: a string of digits supplied for an integer-typed parameter is
\* sent as its number, a number supplied for one is sent as an integer,
\* a float without its fraction, and every other value is sent as it was
\* supplied
C25_DigitsAndNumbersSentAsIntegers ==
    \A i \in 1..Len(attempt_log) :
        LET supplied == SuppliedTo(attempt_log[i])
            carried == attempt_log[i].parameters
        IN     /\ DOMAIN carried = DOMAIN supplied
               /\ \A key \in DOMAIN supplied :
                     carried[key] =
                        IF key \in IntegerTyped
                              /\ IsDigitString(supplied[key])
                        THEN IntV(DigitsValue(StringChars(supplied[key].s)))
                        ELSE IF key \in IntegerTyped
                                   /\ IsNumber(supplied[key])
                        THEN IntV(IF supplied[key].kind = "int"
                                  THEN supplied[key].n
                                  ELSE supplied[key].n \div 10)
                        ELSE supplied[key]

\* a call was made with limit "007", and the requests carried limit 7
C25_Witness ==
    \E i \in 1..Len(attempt_log) :
        /\ "limit" \in DOMAIN SuppliedTo(attempt_log[i])
        /\ SuppliedTo(attempt_log[i])["limit"] = StrV("007")
        /\ attempt_log[i].parameters["limit"] = IntV(7)

---------------------------------------------------------------------------
(* Properties of the order of the stages                                 *)

\* the stages in the order of the graph, between the call of
\* process_query and its return
StageOrder ==
    <<"idle", "start", "analyze", "execute", "check", "followup", "enrich",
      "finish", "done">>

\* a step that leaves a stage enters the next stage of the order
EntersNextStage ==
    pc' # pc =>
        \E i \in 1..(Len(StageOrder) - 1) :
            pc = StageOrder[i] /\ pc' = StageOrder[i + 1]

\* the expand stage with the pending flag false changes nothing of the
\* turn
ExpandPassesThrough ==
    pc = "followup" /\ ~needs_comprehensive_followup =>
        /\ pc' \in {"followup", "enrich"}
        /\ UNCHANGED <<user_query, workflow_status, error_count, query_type,
                       llm_analysis, tool_plan, executed_tools, mcp_results,
                       followupVars, final_response, conversation_history,
                       validation_result, execVars, attempt_log>>

\* C26: a turn goes through start, analyze, execute, check-expansion,
\* expand, enrich and finish in this order, entering each stage once and
\* only from the stage before it, and the expand stage with a false
\* pending flag passes the state on as it is
C26_StagesOnceInOrder == [][EntersNextStage /\ ExpandPassesThrough]_vars

\* a turn that ended after its follow-up calls had been executed
C26_Witness == pc = "done" /\ FollowupExecuted

---------------------------------------------------------------------------
(* Properties of the entity extractor                                    *)

\* result i is a successful resource search whose first item has an id
FindsResource(i) ==
    /\ mcp_results[i].success
    /\ mcp_results[i].tool_name = "search_resources"
    /\ mcp_results[i].result.resources # <<>>
    /\ IsDict(mcp_results[i].result.resources[1])
    /\ mcp_results[i].result.resources[1].id # 0

\* result i is a successful incident search whose first item has an id
FindsIncident(i) ==
    /\ mcp_results[i].success
    /\ mcp_results[i].tool_name = "search_incidents"
    /\ IncidentsOf(mcp_results[i].result) # <<>>
    /\ IncidentsOf(mcp_results[i].result)[1].id # 0

\* C27 as claimed: when several successful searches of one entity kind
\* found an item, the primary id that the extractor records for the kind
\* is the id of the first of them in result order
C27_AsClaimed ==
    ExtractorOutputStored =>
        \A i \in 1..Len(mcp_results) :
            /\ (FindsResource(i) /\ \A j \in 1..(i - 1) : ~FindsResource(j))
                  => extracted_ids.resource_id
                        = mcp_results[i].result.resources[1].id
            /\ (FindsIncident(i) /\ \A j \in 1..(i - 1) : ~FindsIncident(j))
                  => extracted_ids.incident_id
                        = IncidentsOf(mcp_results[i].result)[1].id

\* C28 as claimed: the extractor run again on the tool-result list of
\* the session returns the identifier map that its first run returned
C28_AsClaimed ==
    ExtractorOutputStored => ExtractFrom(mcp_results).ex = extracted_ids

\* result i is a successful ticket search whose first item has an id
FindsTicket(i) ==
    /\ mcp_results[i].success
    /\ mcp_results[i].tool_name = "search_tickets"
    /\ mcp_results[i].result.tickets # <<>>
    /\ mcp_results[i].result.tickets[1].id # 0

\* result i is a successful resource search whose first item is not a
\* dict: processing it fails
FailsInExtractor(i) ==
    /\ mcp_results[i].success
    /\ mcp_results[i].tool_name = "search_resources"
    /\ mcp_results[i].result.resources # <<>>
    /\ ~IsDict(mcp_results[i].result.resources[1])

\* check-expansion has returned and no comprehensive-class tool kept it
\* from storing what the extractor found
ExtractorRan ==
    /\ pc = "followup"
    /\ exec_phase = "idle"
    /\ should_expand(user_query, llm_analysis)
    /\ ~already_comprehensive(executed_tools)

\* C29 as claimed: when processing one result fails in the extractor,
\* the identifiers found in the results before and after it are in the
\* output map
C29_AsClaimed ==
    (ExtractorRan /\ \E i \in 1..Len(mcp_results) : FailsInExtractor(i)) =>
        \A i \in 1..Len(mcp_results) :
            /\ FindsResource(i) => "resource_id" \in extracted_ids.keys
            /\ FindsIncident(i) => "incident_id" \in extracted_ids.keys
            /\ FindsTicket(i) => "ticket_id" \in extracted_ids.keys

---------------------------------------------------------------------------
(* Properties of check-expansion                                         *)

\* the condition under which check-expansion is to set the pending flag
ExpansionDue ==
    /\ should_expand(user_query, llm_analysis)
    /\ ExtractFrom(mcp_results).ex.keys # {}
    /\ \A i \in 1..Len(executed_tools) :
          executed_tools[i] \notin
             {"get_resource_by_id", "get_resource_version",
              "get_resource_metadata", "get_changelog_by_resource",
              "get_resource_tickets", "get_notifications_by_resource",
              "get_incident_by_id", "get_incident_changelogs"}

\* C30 as claimed: check-expansion sets the pending flag exactly when an
\* expansion signal holds, the extractor found an identifier and no
\* comprehensive-class tool was executed; in every other case the state
\* it returns is the state it was given, with the flag false and no
\* identifier recorded
C30_AsClaimed ==
    [][pc = "check" =>
          /\ needs_comprehensive_followup' = ExpansionDue
          /\ ~ExpansionDue =>
                /\ extracted_ids' = EmptyExtracted
                /\ UNCHANGED <<user_query, workflow_status, error_count,
                               query_type, llm_analysis, tool_plan,
                               executed_tools, mcp_results, followupVars,
                               final_response, conversation_history,
                               validation_result>>]_vars

---------------------------------------------------------------------------
(* Properties of the expand stage                                        *)

\* the expand stage has ended
ExpandEnded == pc \in {"enrich", "finish", "done"}

\* C31 as claimed: when the expand stage has ended the pending flag is
\* false, also when the flag was set and the follow-up plan built from
\* the extracted identifiers is empty; so it is false when the turn ends
C31_AsClaimed == ExpandEnded => ~needs_comprehensive_followup

\* the follow-up plan that the expand stage built and executed
FollowupPlanBuilt ==
    IF FollowupExecuted
    THEN create_followup_plan(TRUE, extracted_ids, <<>>)
    ELSE <<>>

\* C32: after the expand stage of a turn that is not conversational, the
\* recorded plan is the initial plan followed by the follow-up plan, the
\* tool-result list is as long as the plan, and result k has the tool
\* name of plan entry k
C32_PlanAndResultsAligned ==
    (ExpandEnded /\ query_type # "conversational") =>
        /\ tool_plan = InitialPlan \o FollowupPlanBuilt
        /\ Len(mcp_results) = Len(tool_plan)
        /\ \A k \in 1..Len(tool_plan) :
              mcp_results[k].tool_name = tool_plan[k].name

\* a turn has ended whose follow-up plan was executed after an initial
\* plan of two calls, with a failed call among the follow-up calls
C32_Witness ==
    /\ pc = "done"
    /\ query_type # "conversational"
    /\ FollowupExecuted
    /\ Len(original_plan) = 2
    /\ Len(tool_plan) > 2
    /\ \E k \in 3..Len(mcp_results) : ~mcp_results[k].success

---------------------------------------------------------------------------
(* Properties of the smart fallback                                      *)

\* enrich_response has answered with the smart fallback
SmartFallbackGiven ==
    /\ pc \in {"finish", "done"}
    /\ final_response = _create_smart_fallback_response(mcp_results)

\* the tools that the text of the smart fallback names
ToolsNamedInFallback ==
    {response_lines(mcp_results)[k].tool_name :
        k \in 1..Len(response_lines(mcp_results))}

\* C33 as claimed: the answer of the fallback path names every tool
\* whose record is a failure, and lists for each successful result at
\* most three labels, each the title of an item, else its message, else
\* its name, else its id
C33_AsClaimed ==
    SmartFallbackGiven =>
        /\ \A i \in 1..Len(mcp_results) :
              ~mcp_results[i].success =>
                  mcp_results[i].tool_name \in ToolsNamedInFallback
        /\ \A k \in 1..Len(response_lines(mcp_results)) :
              Len(response_lines(mcp_results)[k].labels) <= 3

---------------------------------------------------------------------------
(* Properties of the badges                                              *)

\* enrich_response has built the annotations of the turn
AnnotationsBuilt == pc \in {"finish", "done"} /\ annotations # <<>>

\* C34 as claimed: when the analyze stage recorded a confidence greater
\* than 0, the annotations of the enrich stage hold a confidence badge
\* of tier success above 0.8, warning above 0.5 and error otherwise, on
\* the oracle path and on the fallback path
C34_AsClaimed ==
    (AnnotationsBuilt /\ confidence_score > 0) =>
        \E k \in 1..Len(annotations) :
            /\ annotations[k].kind = "confidence"
            /\ annotations[k].type =
                  (IF confidence_score > 80 THEN "success"
                   ELSE IF confidence_score > 50 THEN "warning"
                   ELSE "error")

---------------------------------------------------------------------------
(* Properties of the history across turns                                *)

\* a step that starts a turn
TurnStarts == pc = "idle" /\ pc' = "start"

\* a step that ends a turn after its finish stage
TurnEnds == pc = "done" /\ pc' = "idle"

\* C35: for turns run one after another, the history restored at the
\* start of a turn is the history that the finish stage of the previous
\* turn of the same session stored, a turn of another session never
\* changes it, and a session that had no turn starts with an empty
\* history
C35_HistoryPerSession ==
    [][/\ TurnEnds =>
            /\ thread_id \in DOMAIN memory'
            /\ memory'[thread_id] = conversation_history
       /\ \A session \in DOMAIN memory :
            (session # thread_id \/ ~TurnEnds) =>
                /\ session \in DOMAIN memory'
                /\ memory'[session] = memory[session]
       /\ TurnStarts =>
            conversation_history' =
                (IF thread_id' \in DOMAIN memory
                 THEN memory[thread_id'] ELSE <<>>)]_vars

\* a turn of s1 has started with the four messages of its two earlier
\* turns while s2 holds the two messages of its one turn
C35_Witness ==
    /\ pc = "start"
    /\ thread_id = "s1"
    /\ Len(conversation_history) = 4
    /\ "s2" \in DOMAIN memory
    /\ Len(memory["s2"]) = 2
    /\ memory["s1"] = conversation_history

---------------------------------------------------------------------------
(* Properties of a plan that fetches the incident directly               *)

\* the resources that the incident fetched with get_incident_by_id
\* references
DirectlyLinked ==
    LET Mapping(i) == mcp_results[i].result.incidents[1].resource_mapping
    IN  UNION {{Mapping(i)[k] : k \in 1..Len(Mapping(i))} :
               i \in {j \in 1..Len(mcp_results) :
                        /\ mcp_results[j].success
                        /\ mcp_results[j].tool_name = "get_incident_by_id"
                        /\ mcp_results[j].result.incidents # <<>>}}

\* the follow-up plan holds a get_resource_by_id call for the resource
FollowupFetches(id) ==
    \E k \in 1..Len(followup_tool_plan) :
        /\ followup_tool_plan[k] = ResourceCall("get_resource_by_id", id)

\* C36 as claimed: when the plan of a query for an incident and all its
\* affected resources fetched the incident with get_incident_by_id and
\* the incident references resources, the turn goes on to
\* get_resource_by_id follow-up calls for those resources
C36_AsClaimed ==
    (/\ ExpandEnded \/ exec_phase = "followup"
     /\ mcp_results # <<>>
     /\ mcp_results[1].tool_name = "get_incident_by_id") =>
        \A id \in DirectlyLinked : FollowupFetches(id)

---------------------------------------------------------------------------
(* Properties of an attempt that returns                                 *)

\* the number of calls of client.execute_tool made for entry k
AttemptCount(k) == Cardinality(AttemptsFor(k))

\* C37: a call of client.execute_tool that returns ends the retry loop
\* of its entry, also when the dict returned reports success false: the
\* result is recorded as it came back and no further attempt is made, so
\* a structured failure on the first attempt makes one attempt and a
\* return on attempt j makes j attempts
C37_ReturnedResultNotRetried ==
    exec_phase # "idle" =>
        \A k \in 1..Len(tool_plan) :
            \A i \in AttemptsFor(k) :
                ~attempt_log[i].raised =>
                    /\ \A j \in AttemptsFor(k) : j <= i
                    /\ AttemptCount(k) = attempt_log[i].attempt + 1
                    /\ Recorded(k)
                    /\ StageResult(k).success = StageResult(k).result.success
                    /\ StageResult(k).result.error = <<>>

\* the Tool Service answered the first attempt of a call with a
\* structured failure, and the call was recorded as failed after that
\* one attempt
C37_Witness ==
    /\ exec_phase = "primary"
    /\ exec_index = 2
    /\ Len(attempt_log) = 1
    /\ ~attempt_log[1].raised
    /\ attempt_log[1].requests = 1
    /\ mcp_results[1].result = StructuredFailure
    /\ ~mcp_results[1].success

---------------------------------------------------------------------------
(* Properties of the requests that reach the Tool Service                *)

\* the requests sent by the calls of client.execute_tool at the
\* positions of the log in the set
RECURSIVE RequestsIn(_)
RequestsIn(positions) ==
    IF positions = {} THEN 0
    ELSE LET i == CHOOSE p \in positions : TRUE
         IN  attempt_log[i].requests + RequestsIn(positions \ {i})

\* C38: for a validated plan entry whose every request fails, the Tool
\* Service receives 6 requests, 3 from each of the 2 attempts of the Tool
\* Invoker, before the one failed result is recorded
C38_SixRequestsThenOneFailure ==
    exec_phase # "idle" =>
        \A k \in 1..Len(tool_plan) :
            AllAttemptsRaised(k) =>
                /\ RequestsIn(AttemptsFor(k)) = 3 * AttemptCount(k)
                /\ RequestsIn(AttemptsFor(k)) <= 6
                /\ Recorded(k) <=> RequestsIn(AttemptsFor(k)) = 6
                /\ Recorded(k) =>
                      /\ Len(mcp_results) = Len(results_before) + 1
                      /\ ~StageResult(k).success

\* six requests for one call have failed and its failure is recorded
C38_Witness ==
    /\ exec_phase = "primary"
    /\ exec_index = 2
    /\ AllAttemptsRaised(1)
    /\ RequestsIn(AttemptsFor(1)) = 6
    /\ Len(mcp_results) = 1
    /\ mcp_results[1].result.error # <<>>

---------------------------------------------------------------------------
(* Properties of the event that names the tools                          *)

\* the positions of the tools-about-to-run events among the events sent
ToolCallEvents == {i \in 1..Len(sent) : sent[i].kind = "on_tool_call"}

\* a result record exists for the tool
HasResultRecord(name) ==
    \E k \in 1..Len(mcp_results) : mcp_results[k].tool_name = name

\* C39 as claimed: once the execute stage has ended, each tool named by a
\* tools-about-to-run event has a result record, and no such event was
\* sent for a plan whose execution was skipped
C39_AsClaimed ==
    pc = "check" =>
        /\ \A i \in ToolCallEvents :
              \A k \in 1..Len(sent[i].tools) : HasResultRecord(sent[i].tools[k])
        /\ query_type = "conversational" => ToolCallEvents = {}

---------------------------------------------------------------------------
(* Properties of the tool-result list across the extraction              *)

\* a step of the comprehensive_check node, in which the Entity Extractor
\* runs
ExtractorStep == pc = "check" /\ pc' = "followup"

\* C40 as claimed: the Entity Extractor leaves every record of the
\* tool-result list as it was, the resource_mapping of an incident item
\* included, whatever mix of incident and ticket results the list holds
C40_AsClaimed ==
    [][ExtractorStep =>
          /\ Len(mcp_results') = Len(mcp_results)
          /\ \A k \in 1..Len(mcp_results) :
                mcp_results'[k].result = mcp_results[k].result]_vars

====
